---- MODULE Spec2Model ----
(***************************************************************************)
(* Model of stripe-copy-prod-to-test: a one-shot utility that copies tax   *)
(* rates, products, prices and coupons from a production Stripe account to *)
(* a test account (main.py, src/stripe_client.py, src/mapper.py,           *)
(* src/copiers/*.py).                                                       *)
(*                                                                         *)
(* The remote accounts are two stores of records per resource kind.  The   *)
(* run of main() is a state machine: parse the --entities list, confirm,   *)
(* and for every selected kind list both accounts and process the source   *)
(* records one at a time, then save the mapping snapshot and exit.         *)
(***************************************************************************)
EXTENDS Integers, Sequences, FiniteSets, TLC

(***************************************************************************)
(* Bounds of the model.                                                    *)
(***************************************************************************)
MaxSrc == 2        \* records of the production account, over all kinds
MaxDst == 1        \* records of the test account before the first run
MaxFailures == 1   \* Stripe API calls that fail, over the runs

(***************************************************************************)
(* Values.                                                                 *)
(***************************************************************************)
NoneV == "None"          \* Python None (absent string attribute)
NoAmount == 0 - 1        \* Python None for an integer attribute

PRODUCTION == "production"
TEST == "test"
Environment == {PRODUCTION, TEST}

Kinds == {"tax_rates", "products", "prices", "coupons"}
StatTypes == {"created", "updated", "errors"}

EmptyMeta == <<>>

\* The attributes of a Stripe object that the copiers read.  `name` is
\* display_name for a tax rate; `recurring` is <<>> or <<interval, count>>;
\* `applies_to` is the list applies_to.products of a coupon.
Entity(id, name, meta) ==
    [id |-> id, name |-> name, meta |-> meta,
     pct |-> 0, jur |-> NoneV,
     product |-> NoneV, currency |-> NoneV,
     unit_amount |-> NoAmount, unit_amount_decimal |-> NoneV,
     lookup_key |-> NoneV, recurring |-> <<>>,
     applies_to |-> <<>>]

NoEntity == Entity(NoneV, NoneV, EmptyMeta)

\* metadata.get("prod_id")
MetaProdId(meta) == IF "prod_id" \in DOMAIN meta THEN meta["prod_id"] ELSE NoneV

\* bool(metadata): a non-empty map
MetaTruthy(meta) == DOMAIN meta # {}

Range(s) == {s[i] : i \in 1..Len(s)}

(***************************************************************************)
(* IDMapper (src/mapper.py).                                               *)
(***************************************************************************)
EmptyMappings == [k \in Kinds |-> <<>>]
ZeroStats == [k \in Kinds |-> [created |-> 0, updated |-> 0, errors |-> 0]]

\* An add_mapping that keeps the entry a production id already has.
add_mappingKeepFirst(mp, resource_type, prod_id, test_id) ==
    IF resource_type \notin DOMAIN mp
    THEN [raised |-> TRUE, mappings |-> mp]
    ELSE [raised |-> FALSE,
          mappings |-> [mp EXCEPT ![resource_type] = @ @@ (prod_id :> test_id)]]

\* add_mapping: raises ValueError for an unknown resource type.
add_mapping(mp, resource_type, prod_id, test_id) ==
    IF resource_type \notin DOMAIN mp
    THEN [raised |-> TRUE, mappings |-> mp]
    ELSE [raised |-> FALSE,
          mappings |-> [mp EXCEPT ![resource_type] = (prod_id :> test_id) @@ @]]

get_test_id(mp, resource_type, prod_id) ==
    IF resource_type \in DOMAIN mp /\ prod_id \in DOMAIN mp[resource_type]
    THEN mp[resource_type][prod_id]
    ELSE NoneV

increment_stat(st, resource_type, stat_type) ==
    IF resource_type \in DOMAIN st /\ stat_type \in DOMAIN st[resource_type]
    THEN [st EXCEPT ![resource_type][stat_type] = @ + 1]
    ELSE st

RECURSIVE SumStat(_, _, _)
SumStat(st, ks, key) ==
    IF ks = {} THEN 0
    ELSE LET k == CHOOSE e \in ks : TRUE
         IN st[k][key] + SumStat(st, ks \ {k}, key)

\* A summary that leaves the coupons out of the totals.
get_summaryNoCoupons(st) ==
    [created |-> SumStat(st, DOMAIN st \ {"coupons"}, "created"),
     updated |-> SumStat(st, DOMAIN st \ {"coupons"}, "updated"),
     errors |-> SumStat(st, DOMAIN st \ {"coupons"}, "errors")]

\* get_summary: the totals over every resource type.
get_summary(st) ==
    [created |-> SumStat(st, DOMAIN st, "created"),
     updated |-> SumStat(st, DOMAIN st, "updated"),
     errors |-> SumStat(st, DOMAIN st, "errors")]

(***************************************************************************)
(* StripeClient (src/stripe_client.py).  A remote account is a list of     *)
(* records per kind; `remote` maps an environment to its account.          *)
(* Parameters of a create or update are the dict `keys` present and their  *)
(* values.  An operation returns whether it raised, whether the Stripe API *)
(* was contacted, the value returned and the accounts afterwards.          *)
(***************************************************************************)
Params(keys, vals) == [keys |-> keys, vals |-> vals]

\* A returned value: a Stripe object (attribute access works) or a plain
\* dict (attribute access raises AttributeError).
StripeObject(id) == [isObj |-> TRUE, id |-> id]
PlainDict(id) == [isObj |-> FALSE, id |-> id]
NoReturn == [isObj |-> FALSE, id |-> NoneV]

\* The record the API stores for a create request.
CreatedEntity(params, newId) ==
    [params.vals EXCEPT
        !.id = IF "id" \in params.keys THEN params.vals.id ELSE newId,
        !.meta = IF "metadata" \in params.keys THEN params.vals.meta ELSE EmptyMeta]

\* The record the API stores for a modify request: the given keys replace
\* the attributes, metadata keys are merged into the stored metadata.
ModifiedEntity(e, params) ==
    [e EXCEPT
        !.name = IF "name" \in params.keys THEN params.vals.name ELSE @,
        !.meta = IF "metadata" \in params.keys THEN params.vals.meta @@ @ ELSE @]

IndexOfId(list, id) ==
    LET S == {i \in 1..Len(list) : list[i].id = id}
    IN IF S = {} THEN 0 ELSE CHOOSE i \in S : \A j \in S : i <= j

\* A client that never simulates.
SimulatedNever(dry) == FALSE

\* `if self.dry_run:` of create and update: the call is simulated.
Simulated(dry) == dry

\* StripeClient.create with the dry-run branch placed before the production
\* check.
ClientCreateDryFirst(remote, dry, resource, env, params, remoteOk, newId) ==
    IF dry
    THEN [raised |-> FALSE, contacted |-> FALSE, simulated |-> TRUE,
          ret |-> PlainDict(IF "id" \in params.keys THEN params.vals.id
                            ELSE "dry_run_" \o resource \o "_id"),
          remote |-> remote]
    ELSE IF env = PRODUCTION \/ resource \notin Kinds
    THEN [raised |-> TRUE, contacted |-> FALSE, simulated |-> FALSE,
          ret |-> NoReturn, remote |-> remote]
    ELSE IF ~remoteOk
    THEN [raised |-> TRUE, contacted |-> TRUE, simulated |-> FALSE,
          ret |-> NoReturn, remote |-> remote]
    ELSE LET e == CreatedEntity(params, newId)
         IN [raised |-> FALSE, contacted |-> TRUE, simulated |-> FALSE,
             ret |-> StripeObject(e.id),
             remote |-> [remote EXCEPT ![env][resource] = <<e>> \o @]]

\* StripeClient.create.  remoteOk: the API call succeeds; newId: the id the
\* API assigns when the request names none.
ClientCreate(remote, dry, resource, env, params, remoteOk, newId) ==
    IF env = PRODUCTION
    THEN [raised |-> TRUE, contacted |-> FALSE, simulated |-> FALSE,
          ret |-> NoReturn, remote |-> remote]
    ELSE IF Simulated(dry)
    THEN [raised |-> FALSE, contacted |-> FALSE, simulated |-> TRUE,
          ret |-> PlainDict(IF "id" \in params.keys THEN params.vals.id
                            ELSE "dry_run_" \o resource \o "_id"),
          remote |-> remote]
    ELSE IF resource \notin Kinds
    THEN [raised |-> TRUE, contacted |-> FALSE, simulated |-> FALSE,
          ret |-> NoReturn, remote |-> remote]
    ELSE IF ~remoteOk
    THEN [raised |-> TRUE, contacted |-> TRUE, simulated |-> FALSE,
          ret |-> NoReturn, remote |-> remote]
    ELSE LET e == CreatedEntity(params, newId)
         IN [raised |-> FALSE, contacted |-> TRUE, simulated |-> FALSE,
             ret |-> StripeObject(e.id),
             remote |-> [remote EXCEPT ![env][resource] = <<e>> \o @]]

\* StripeClient.update.
ClientUpdate(remote, dry, resource, resource_id, env, params, remoteOk) ==
    IF env = PRODUCTION
    THEN [raised |-> TRUE, contacted |-> FALSE, simulated |-> FALSE,
          ret |-> NoReturn, remote |-> remote]
    ELSE IF Simulated(dry)
    THEN [raised |-> FALSE, contacted |-> FALSE, simulated |-> TRUE,
          ret |-> PlainDict(IF "id" \in params.keys THEN params.vals.id
                            ELSE resource_id),
          remote |-> remote]
    ELSE IF resource \notin Kinds
    THEN [raised |-> TRUE, contacted |-> FALSE, simulated |-> FALSE,
          ret |-> NoReturn, remote |-> remote]
    ELSE LET i == IndexOfId(remote[env][resource], resource_id)
         IN IF ~remoteOk \/ i = 0
            THEN [raised |-> TRUE, contacted |-> TRUE, simulated |-> FALSE,
                  ret |-> NoReturn, remote |-> remote]
            ELSE [raised |-> FALSE, contacted |-> TRUE, simulated |-> FALSE,
                  ret |-> StripeObject(resource_id),
                  remote |-> [remote EXCEPT ![env][resource][i] =
                                 ModifiedEntity(@, params)]]

\* StripeClient.list_all: the whole collection, in remote order.
ClientListAll(remote, resource, env, remoteOk) ==
    IF resource \notin Kinds \/ ~remoteOk
    THEN [raised |-> TRUE, items |-> <<>>]
    ELSE [raised |-> FALSE, items |-> remote[env][resource]]

(***************************************************************************)
(* The copiers (src/copiers/*.py).                                         *)
(***************************************************************************)
\* Absolute tolerance of the percentage comparison, 0.01, in units of 0.0001.
PctTolerance == 100

Abs(n) == IF n < 0 THEN 0 - n ELSE n

Truthy(v) == v # NoneV

\* First element of `list` that is one of `matching`, or NoEntity.
FirstMatch(list, matching) ==
    LET S == {i \in 1..Len(list) : list[i] \in matching}
    IN IF S = {} THEN NoEntity
       ELSE list[CHOOSE i \in S : \A j \in S : i <= j]

\* can_update also False for coupons; can_update True for every kind.
can_updateNotCoupons(kind) == kind \notin {"prices", "coupons"}
can_updateAll(kind) == TRUE
can_update(kind) == kind # "prices"

\* Strategy 1 of every copier: metadata prod_id equals the source id.
MatchByProdId(s, test_entities) ==
    FirstMatch(test_entities,
               {t \in Range(test_entities) :
                    MetaTruthy(t.meta) /\ MetaProdId(t.meta) = s.id})

\* Name equality alone.
NameGuardNone(s, t) == t.name = s.name

\* Name equality guarded against a record tagged with another prod_id.
NameGuard(s, t) ==
    /\ t.name = s.name
    /\ (~Truthy(MetaProdId(t.meta)) \/ MetaProdId(t.meta) = s.id)

\* A tax rate matching that tries both rules on each record in one pass.
TaxRateFindExistingOnePass(s, test_entities) ==
    FirstMatch(test_entities,
        {t \in Range(test_entities) :
            \/ MetaTruthy(t.meta) /\ MetaProdId(t.meta) = s.id
            \/ /\ t.name = s.name
               /\ Abs(t.pct - s.pct) < PctTolerance
               /\ s.jur = t.jur})

\* TaxRateCopier.find_existing: the prod_id rule over the whole list, then
\* the (display_name, percentage, jurisdiction) rule.
TaxRateFindExisting(s, test_entities) ==
    LET m1 == MatchByProdId(s, test_entities)
    IN IF m1 # NoEntity THEN m1
       ELSE FirstMatch(test_entities,
                {t \in Range(test_entities) :
                    /\ t.name = s.name
                    /\ Abs(t.pct - s.pct) < PctTolerance
                    /\ s.jur = t.jur})

ProductFindExisting(s, test_entities) ==
    LET m1 == MatchByProdId(s, test_entities)
    IN IF m1 # NoEntity THEN m1
       ELSE FirstMatch(test_entities,
                {t \in Range(test_entities) : NameGuard(s, t)})

\* A structural rule that compares the recurring-ness only.
PriceStructuralMatchNoInterval(s, t, test_product_id) ==
    /\ t.product = test_product_id
    /\ t.currency = s.currency
    /\ (s.unit_amount # NoAmount => t.unit_amount = s.unit_amount)
    /\ ((s.recurring # <<>>) <=> (t.recurring # <<>>))

\* Strategy 3 of PriceCopier.find_existing, for one destination price.
PriceStructuralMatch(s, t, test_product_id) ==
    /\ t.product = test_product_id
    /\ t.currency = s.currency
    /\ (s.unit_amount # NoAmount => t.unit_amount = s.unit_amount)
    /\ ((s.recurring # <<>>) <=> (t.recurring # <<>>))
    /\ ((s.recurring # <<>> /\ t.recurring # <<>>) =>
            /\ s.recurring[1] = t.recurring[1]
            /\ s.recurring[2] = t.recurring[2])

PriceFindExisting(s, test_entities, mp) ==
    LET m1 == MatchByProdId(s, test_entities)
        m2 == IF Truthy(s.lookup_key)
              THEN FirstMatch(test_entities,
                              {t \in Range(test_entities) : t.lookup_key = s.lookup_key})
              ELSE NoEntity
        test_product_id == get_test_id(mp, "products", s.product)
    IN IF m1 # NoEntity THEN m1
       ELSE IF m2 # NoEntity THEN m2
       ELSE IF ~Truthy(test_product_id) THEN NoEntity
       ELSE FirstMatch(test_entities,
                {t \in Range(test_entities) :
                    PriceStructuralMatch(s, t, test_product_id)})

CouponFindExisting(s, test_entities) ==
    LET m1 == MatchByProdId(s, test_entities)
        m2 == FirstMatch(test_entities,
                {t \in Range(test_entities) : t.id = "test_" \o s.id})
    IN IF m1 # NoEntity THEN m1
       ELSE IF m2 # NoEntity THEN m2
       ELSE IF Truthy(s.name)
       THEN FirstMatch(test_entities,
                {t \in Range(test_entities) : Truthy(t.name) /\ NameGuard(s, t)})
       ELSE NoEntity

find_existing(kind, s, test_entities, mp) ==
    CASE kind = "tax_rates" -> TaxRateFindExisting(s, test_entities)
      [] kind = "products" -> ProductFindExisting(s, test_entities)
      [] kind = "prices" -> PriceFindExisting(s, test_entities, mp)
      [] kind = "coupons" -> CouponFindExisting(s, test_entities)

\* "metadata" is a key of the params only when the source metadata is
\* non-empty.
MetaKey(s) == IF MetaTruthy(s.meta) THEN {"metadata"} ELSE {}

TaxRateCreateParams(s) ==
    [raised |-> FALSE,
     params |-> Params({"name", "inclusive", "percentage"}
                        \cup (IF Truthy(s.jur) THEN {"jurisdiction"} ELSE {})
                        \cup MetaKey(s),
                       [NoEntity EXCEPT !.name = s.name, !.pct = s.pct,
                                        !.jur = s.jur, !.meta = s.meta])]

ProductCreateParams(s) ==
    [raised |-> FALSE,
     params |-> Params({"name"} \cup MetaKey(s),
                       [NoEntity EXCEPT !.name = s.name, !.meta = s.meta])]

\* get_create_params of prices without the check of the mapped product.
PriceCreateParamsNoCheck(s, mp) ==
    [raised |-> FALSE,
     params |-> Params({"currency", "product"} \cup MetaKey(s),
                       [NoEntity EXCEPT
                          !.currency = s.currency,
                          !.product = get_test_id(mp, "products", s.product),
                          !.meta = s.meta])]

\* get_create_params of prices that prefers the integer amount.
PriceCreateParamsPreferInteger(s, mp) ==
    LET test_product_id == get_test_id(mp, "products", s.product)
        amountKey == IF s.unit_amount # NoAmount THEN {"unit_amount"}
                     ELSE IF Truthy(s.unit_amount_decimal)
                     THEN {"unit_amount_decimal"}
                     ELSE {}
    IN IF ~Truthy(test_product_id)
       THEN [raised |-> TRUE, params |-> Params({}, NoEntity)]
       ELSE [raised |-> FALSE,
             params |-> Params(
                {"currency", "product"} \cup amountKey
                  \cup (IF s.recurring # <<>> THEN {"recurring"} ELSE {})
                  \cup (IF Truthy(s.lookup_key) THEN {"lookup_key"} ELSE {})
                  \cup MetaKey(s),
                [NoEntity EXCEPT
                   !.currency = s.currency,
                   !.product = test_product_id,
                   !.unit_amount_decimal =
                       IF "unit_amount_decimal" \in amountKey
                       THEN s.unit_amount_decimal ELSE NoneV,
                   !.unit_amount =
                       IF "unit_amount" \in amountKey
                       THEN s.unit_amount ELSE NoAmount,
                   !.recurring = s.recurring,
                   !.lookup_key = s.lookup_key,
                   !.meta = s.meta])]

\* PriceCopier.get_create_params: ValueError when the product of the price
\* has no products mapping.
PriceCreateParams(s, mp) ==
    LET test_product_id == get_test_id(mp, "products", s.product)
        amountKey == IF Truthy(s.unit_amount_decimal)
                     THEN {"unit_amount_decimal"}
                     ELSE IF s.unit_amount # NoAmount THEN {"unit_amount"}
                     ELSE {}
    IN IF ~Truthy(test_product_id)
       THEN [raised |-> TRUE, params |-> Params({}, NoEntity)]
       ELSE [raised |-> FALSE,
             params |-> Params(
                {"currency", "product"} \cup amountKey
                  \cup (IF s.recurring # <<>> THEN {"recurring"} ELSE {})
                  \cup (IF Truthy(s.lookup_key) THEN {"lookup_key"} ELSE {})
                  \cup MetaKey(s),
                [NoEntity EXCEPT
                   !.currency = s.currency,
                   !.product = test_product_id,
                   !.unit_amount_decimal =
                       IF "unit_amount_decimal" \in amountKey
                       THEN s.unit_amount_decimal ELSE NoneV,
                   !.unit_amount =
                       IF "unit_amount" \in amountKey
                       THEN s.unit_amount ELSE NoAmount,
                   !.recurring = s.recurring,
                   !.lookup_key = s.lookup_key,
                   !.meta = s.meta])]

\* applies_to.products resolved through the mapper, an unresolvable id kept
\* as None.
MapProductsKeepAll(ids, mp) ==
    [i \in 1..Len(ids) |-> get_test_id(mp, "products", ids[i])]

\* applies_to.products resolved through the mapper, unresolvable ids dropped.
RECURSIVE MapProducts(_, _)
MapProducts(ids, mp) ==
    IF ids = <<>> THEN <<>>
    ELSE LET test_id == get_test_id(mp, "products", Head(ids))
         IN (IF Truthy(test_id) THEN <<test_id>> ELSE <<>>)
              \o MapProducts(Tail(ids), mp)

CouponCreateParams(s, mp) ==
    LET test_product_ids == MapProducts(s.applies_to, mp)
    IN [raised |-> FALSE,
        params |-> Params(
           (IF Truthy(s.id) THEN {"id"} ELSE {})
             \cup (IF Truthy(s.name) THEN {"name"} ELSE {})
             \cup (IF test_product_ids # <<>> THEN {"applies_to"} ELSE {})
             \cup MetaKey(s),
           [NoEntity EXCEPT
              !.id = IF Truthy(s.id) THEN "test_" \o s.id ELSE NoneV,
              !.name = s.name,
              !.applies_to = test_product_ids,
              !.meta = s.meta])]

get_create_params(kind, s, mp) ==
    CASE kind = "tax_rates" -> TaxRateCreateParams(s)
      [] kind = "products" -> ProductCreateParams(s)
      [] kind = "prices" -> PriceCreateParams(s, mp)
      [] kind = "coupons" -> CouponCreateParams(s, mp)

\* get_update_params of the tax rate, product and coupon copiers: the name
\* and, only when the source metadata is non-empty, the metadata tagged
\* with prod_id.  (The price variant is never reached: can_update is False.)
get_update_params(kind, s) ==
    Params({"name"} \cup MetaKey(s),
           [NoEntity EXCEPT
              !.name = s.name,
              !.meta = IF MetaTruthy(s.meta)
                       THEN ("prod_id" :> s.id) @@ s.meta
                       ELSE EmptyMeta])

(***************************************************************************)
(* BaseCopier (src/copiers/base.py).  The mapper and the accounts a step   *)
(* works on are a context [remote, mappings, stats]; a step returns the    *)
(* context afterwards, whether it raised, and the client calls it issued.  *)
(***************************************************************************)
Call(op, resource, env, id, params, r) ==
    [op |-> op, resource |-> resource, env |-> env, id |-> id,
     params |-> params, contacted |-> r.contacted, simulated |-> r.simulated,
     raised |-> r.raised]

\* The origin tag set only when the copied metadata has no prod_id.
OriginTagKeep(meta, id) == meta @@ ("prod_id" :> id)

\* The origin tag: params["metadata"]["prod_id"] = prod_entity.id
OriginTag(meta, id) == ("prod_id" :> id) @@ meta

\* create_in_test writing to production.
CreateTargetEnvProd == PRODUCTION

\* The environment create_in_test and update_in_test write to.
CreateTargetEnv == TEST
UpdateTargetEnv == TEST

create_in_test(kind, s, ctx, dry, remoteOk, newId) ==
    LET gp == get_create_params(kind, s, ctx.mappings)
        base == IF "metadata" \in gp.params.keys
                THEN gp.params.vals.meta ELSE EmptyMeta
        params == Params(gp.params.keys \cup {"metadata"},
                         [gp.params.vals EXCEPT !.meta = OriginTag(base, s.id)])
        r == ClientCreate(ctx.remote, dry, kind, CreateTargetEnv, params,
                          remoteOk, newId)
        call == Call("create", kind, CreateTargetEnv, NoneV, params, r)
        am == add_mapping(ctx.mappings, kind, s.id, r.ret.id)
    IN IF gp.raised
       THEN [raised |-> TRUE, calls |-> <<>>, ctx |-> ctx, action |-> "none"]
       ELSE IF r.raised
       THEN [raised |-> TRUE, calls |-> <<call>>, ctx |-> ctx, action |-> "none"]
       ELSE IF ~r.ret.isObj \/ am.raised
       THEN [raised |-> TRUE, calls |-> <<call>>,
             ctx |-> [ctx EXCEPT !.remote = r.remote], action |-> "none"]
       ELSE [raised |-> FALSE, calls |-> <<call>>,
             ctx |-> [remote |-> r.remote,
                      mappings |-> am.mappings,
                      stats |-> increment_stat(ctx.stats, kind, "created")],
             action |-> "created"]

update_in_test(kind, t, s, ctx, dry, remoteOk) ==
    LET params == get_update_params(kind, s)
        r == ClientUpdate(ctx.remote, dry, kind, t.id, UpdateTargetEnv,
                          params, remoteOk)
        call == Call("update", kind, UpdateTargetEnv, t.id, params, r)
        am == add_mapping(ctx.mappings, kind, s.id, t.id)
    IN IF ~can_update(kind)
       THEN [raised |-> FALSE, calls |-> <<>>, ctx |-> ctx, action |-> "updated"]
       ELSE IF r.raised
       THEN [raised |-> TRUE, calls |-> <<call>>, ctx |-> ctx, action |-> "none"]
       ELSE IF am.raised
       THEN [raised |-> TRUE, calls |-> <<call>>,
             ctx |-> [ctx EXCEPT !.remote = r.remote], action |-> "none"]
       ELSE [raised |-> FALSE, calls |-> <<call>>,
             ctx |-> [remote |-> r.remote,
                      mappings |-> am.mappings,
                      stats |-> increment_stat(ctx.stats, kind, "updated")],
             action |-> "updated"]

copy_one(kind, s, test_entities, ctx, dry, remoteOk, newId) ==
    LET existing == find_existing(kind, s, test_entities, ctx.mappings)
    IN IF existing # NoEntity
       THEN update_in_test(kind, existing, s, ctx, dry, remoteOk)
       ELSE create_in_test(kind, s, ctx, dry, remoteOk, newId)

\* The per-record loop swallowing an exception without counting it.
CopyLoopBodyNoCount(kind, s, test_entities, ctx, dry, remoteOk, newId) ==
    copy_one(kind, s, test_entities, ctx, dry, remoteOk, newId)

\* The per-record loop recording a mapping for a record that failed.
CopyLoopBodyMapFailed(kind, s, test_entities, ctx, dry, remoteOk, newId) ==
    LET r == copy_one(kind, s, test_entities, ctx, dry, remoteOk, newId)
    IN IF r.raised
       THEN [r EXCEPT
               !.ctx.stats = increment_stat(r.ctx.stats, kind, "errors"),
               !.ctx.mappings =
                   add_mapping(r.ctx.mappings, kind, s.id, "failed").mappings]
       ELSE r

\* The body of the per-record loop of copy(): an exception of copy_one is
\* caught and counted as an error.
CopyLoopBody(kind, s, test_entities, ctx, dry, remoteOk, newId) ==
    LET r == copy_one(kind, s, test_entities, ctx, dry, remoteOk, newId)
    IN IF r.raised
       THEN [r EXCEPT !.ctx.stats = increment_stat(r.ctx.stats, kind, "errors")]
       ELSE r

(***************************************************************************)
(* The accounts the runs start from, restricted to the kinds the runs list *)
(* (the records of a kind outside --entities are never read).  The         *)
(* production account holds at most MaxSrc such records and the test       *)
(* account at most MaxDst; a price refers to a product of its own account. *)
(***************************************************************************)
Letters == <<"A", "B", "C", "D">>
Prefix == [tax_rates |-> "txr_", products |-> "prod_",
           prices |-> "price_", coupons |-> "CPN_"]
SrcId(kind, i) == Prefix[kind] \o Letters[i]
DstId(kind, j) == "t" \o Prefix[kind] \o Letters[j]

Names == {"n1", "n2"}
SrcMetas == {EmptyMeta, ("prod_id" :> "stale")}
LookupKeys == {NoneV, "lk"}
\* The prod_id tags a record of the test account may carry.
DstMetas(kind) == {EmptyMeta, ("prod_id" :> SrcId(kind, 1))}

\* The --entities values of the runs.
EntityChoices ==
    { <<"tax_rates">>,
      <<"products", "prices">>,
      <<"prices", "products">>,
      <<"products", "coupons">>,
      <<"bogus", "prices">>,
      <<"bogus">> }

\* The source records a production account may hold at position i of kind.
SrcRecords(kind, i, productIds) ==
    CASE kind = "tax_rates" ->
           {[Entity(SrcId(kind, i), n, m) EXCEPT !.pct = 200000]
               : n \in (IF i = 1 THEN {"n1"} ELSE Names), m \in SrcMetas}
      [] kind = "products" ->
           {Entity(SrcId(kind, i), n, m)
               : n \in (IF i = 1 THEN {"n1"} ELSE Names), m \in SrcMetas}
      [] kind = "prices" ->
           {[Entity(SrcId(kind, i), NoneV, EmptyMeta) EXCEPT
                !.product = p, !.currency = "usd", !.unit_amount = 1000,
                !.lookup_key = lk]
               : p \in productIds, lk \in LookupKeys}
      [] kind = "coupons" ->
           {[Entity(SrcId(kind, i), n, m) EXCEPT !.applies_to = a]
               : n \in (IF i = 1 THEN {"n1"} ELSE Names), m \in SrcMetas,
                 a \in {<<>>} \cup {<<p>> : p \in productIds}}

\* The records a test account may hold at position j of kind.
DstRecords(kind, j, productIds) ==
    CASE kind = "tax_rates" ->
           {[Entity(DstId(kind, j), n, m) EXCEPT !.pct = 200000]
               : n \in Names, m \in DstMetas(kind)}
      [] kind = "products" ->
           {Entity(DstId(kind, j), n, m) : n \in Names, m \in DstMetas(kind)}
      [] kind = "prices" ->
           {[Entity(DstId(kind, j), NoneV, m) EXCEPT
                !.product = p, !.currency = "usd", !.unit_amount = 1000,
                !.lookup_key = lk]
               : p \in productIds, lk \in LookupKeys,
                 m \in DstMetas(kind)}
      [] kind = "coupons" ->
           {Entity(id, n, m)
               : id \in {DstId(kind, j)}, n \in Names, m \in DstMetas(kind)}

RECURSIVE SrcLists(_, _, _)
SrcLists(kind, n, productIds) ==
    IF n = 0 THEN {<<>>}
    ELSE {Append(l, r) : l \in SrcLists(kind, n - 1, productIds),
                         r \in SrcRecords(kind, n, productIds)}

RECURSIVE DstLists(_, _, _)
DstLists(kind, n, productIds) ==
    IF n = 0 THEN {<<>>}
    ELSE {Append(l, r) : l \in DstLists(kind, n - 1, productIds),
                         r \in DstRecords(kind, n, productIds)}

Ids(list) == {list[i].id : i \in 1..Len(list)}

\* How many records of each kind of `sel` an account of at most `max`
\* records holds.
Counts(max, sel) ==
    {c \in [Kinds -> 0..max] :
        /\ c["tax_rates"] + c["products"] + c["prices"] + c["coupons"] <= max
        /\ \A k \in Kinds : c[k] > 0 => k \in Range(sel)
        /\ (c["prices"] > 0 /\ "products" \in Range(sel)) => c["products"] > 0}

\* The products a price or a coupon of the account may refer to: the
\* products listed, or one product when the runs do not list products.
Referable(sel, pl, env) ==
    IF "products" \in Range(sel) THEN Ids(pl)
    ELSE IF env = PRODUCTION THEN {SrcId("products", 1)}
    ELSE {DstId("products", 1)}

\* The record lists of `kind` an account of `env` may hold.
Lists(env, kind, n, productIds) ==
    IF env = PRODUCTION THEN SrcLists(kind, n, productIds)
    ELSE DstLists(kind, n, productIds)

Accounts(max, sel, env) ==
    UNION { UNION { { [tax_rates |-> tl, products |-> pl,
                       prices |-> xl, coupons |-> cl]
                      : tl \in Lists(env, "tax_rates", c["tax_rates"], {}),
                        xl \in Lists(env, "prices", c["prices"],
                                     Referable(sel, pl, env)),
                        cl \in Lists(env, "coupons", c["coupons"],
                                     Referable(sel, pl, env)) }
                    : pl \in Lists(env, "products", c["products"], {}) }
            : c \in Counts(max, sel) }

(***************************************************************************)
(* State of the runs of main() (main.py).                                  *)
(***************************************************************************)
VARIABLES
    remote,            \* environment -> kind -> records of the account
    dry_run,           \* args.dry_run
    requested,         \* args.entities, split on commas
    entities_to_copy,  \* the recognized kinds, in the order requested
    ei,                \* position of the main loop in entities_to_copy
    pc,                \* position of main()
    prod_entities,     \* copy(): the source records listed
    test_entities,     \* copy(): the destination records listed
    idx,               \* position of the per-record loop in prod_entities
    mappings,          \* IDMapper.mappings
    stats,             \* IDMapper.stats
    files,             \* snapshot files of the mappings directory, by name
    clock,             \* wall clock, in seconds
    exit_code,         \* return value of main(), -1 while running
    run,               \* the current run: "first" or "second"
    nextId,            \* ids the Stripe API has assigned so far
    start,             \* accounts and files when the current run started
    failures,          \* Stripe API calls that have failed, over the runs
    creates,           \* create calls issued in the current run, per kind
    processed,         \* source records processed in the current run, per kind
    last               \* the last per-record step: inputs, calls and result

vars == <<remote, dry_run, requested, entities_to_copy, ei, pc, prod_entities,
          test_entities, idx, mappings, stats, files, clock, exit_code, run,
          nextId, start, failures, creates, processed, last>>

ZeroCounts == [k \in Kinds |-> 0]

NoLast == [valid |-> FALSE, kind |-> NoneV, src |-> NoEntity,
           match |-> NoEntity, calls |-> <<>>, raised |-> FALSE,
           before |-> [mappings |-> EmptyMappings, stats |-> ZeroStats]]

Init ==
    /\ requested \in EntityChoices
    /\ dry_run \in BOOLEAN
    /\ \E p \in Accounts(MaxSrc, requested, PRODUCTION),
          t \in Accounts(MaxDst, requested, TEST) :
          remote = [production |-> p, test |-> t]
    /\ entities_to_copy = <<>>
    /\ ei = 0
    /\ pc = "parse"
    /\ prod_entities = <<>>
    /\ test_entities = <<>>
    /\ idx = 0
    /\ mappings = EmptyMappings
    /\ stats = ZeroStats
    /\ files = <<>>
    /\ clock = 0
    /\ exit_code = 0 - 1
    /\ run = "first"
    /\ nextId = 0
    /\ start = [remote |-> remote, files |-> files]
    /\ failures = 0
    /\ creates = ZeroCounts
    /\ processed = ZeroCounts
    /\ last = NoLast

\* A main() that keeps every requested entity.
FilterKnownAll(seq) == seq

\* main(): keep the requested entities that name a copier.
RECURSIVE FilterKnown(_)
FilterKnown(seq) ==
    IF seq = <<>> THEN <<>>
    ELSE (IF Head(seq) \in Kinds THEN <<Head(seq)>> ELSE <<>>)
            \o FilterKnown(Tail(seq))

ParseEntities ==
    /\ pc = "parse"
    /\ entities_to_copy' = FilterKnown(requested)
    /\ IF entities_to_copy' = <<>>
       THEN pc' = "exit" /\ exit_code' = 1
       ELSE pc' = "confirm" /\ UNCHANGED exit_code
    /\ UNCHANGED <<remote, dry_run, requested, ei, prod_entities,
                   test_entities, idx, mappings, stats, files, clock, run,
                   nextId, start, failures, creates, processed, last>>

\* main(): the confirmation, skipped in dry-run mode and with --yes.
Confirm ==
    /\ pc = "confirm"
    /\ \E yes \in BOOLEAN, answer \in BOOLEAN :
          IF ~dry_run /\ ~yes /\ ~answer
          THEN pc' = "exit" /\ exit_code' = 0 /\ UNCHANGED ei
          ELSE pc' = "list" /\ ei' = 1 /\ UNCHANGED exit_code
    /\ UNCHANGED <<remote, dry_run, requested, entities_to_copy,
                   prod_entities, test_entities, idx, mappings, stats, files,
                   clock, run, nextId, start, failures, creates, processed, last>>

\* A main() that leaves the loop over the kinds after the first kind.
NextKindStop == pc' = "save" /\ UNCHANGED ei

\* main(): after a kind, the next kind or the end of the loop.
NextKind ==
    IF ei < Len(entities_to_copy)
    THEN pc' = "list" /\ ei' = ei + 1
    ELSE pc' = "save" /\ UNCHANGED ei

\* A copy() that counts a failing listing as an error of the kind.
ListKindCountsError ==
    /\ pc = "list"
    /\ \E prodOk \in BOOLEAN, testOk \in BOOLEAN :
          /\ (~prodOk \/ ~testOk) => failures < MaxFailures
          /\ LET kind == entities_to_copy[ei]
                 lp == ClientListAll(remote, kind, PRODUCTION, prodOk)
                 lt == ClientListAll(remote, kind, TEST, testOk)
             IN IF lp.raised \/ lt.raised
                THEN /\ failures' = failures + 1
                     /\ stats' = increment_stat(stats, kind, "errors")
                     /\ NextKind
                     /\ UNCHANGED <<prod_entities, test_entities, idx>>
                ELSE IF lp.items = <<>>
                THEN /\ NextKind
                     /\ UNCHANGED <<prod_entities, test_entities, idx,
                                    failures, stats>>
                ELSE /\ prod_entities' = lp.items
                     /\ test_entities' = lt.items
                     /\ idx' = 1
                     /\ pc' = "loop"
                     /\ UNCHANGED <<ei, failures, stats>>
    /\ UNCHANGED <<remote, dry_run, requested, entities_to_copy, mappings,
                   files, clock, exit_code, run, nextId, start,
                   creates, processed, last>>

\* copy(): list both accounts.  A failing listing raises out of copy() and
\* main() goes on with the next kind; so does an empty source listing.
ListKind ==
    /\ pc = "list"
    /\ \E prodOk \in BOOLEAN, testOk \in BOOLEAN :
          /\ (~prodOk \/ ~testOk) => failures < MaxFailures
          /\ LET kind == entities_to_copy[ei]
                 lp == ClientListAll(remote, kind, PRODUCTION, prodOk)
                 lt == ClientListAll(remote, kind, TEST, testOk)
             IN IF lp.raised \/ lt.raised
                THEN /\ failures' = failures + 1
                     /\ NextKind
                     /\ UNCHANGED <<prod_entities, test_entities, idx>>
                ELSE IF lp.items = <<>>
                THEN /\ NextKind
                     /\ UNCHANGED <<prod_entities, test_entities, idx, failures>>
                ELSE /\ prod_entities' = lp.items
                     /\ test_entities' = lt.items
                     /\ idx' = 1
                     /\ pc' = "loop"
                     /\ UNCHANGED <<ei, failures>>
    /\ UNCHANGED <<remote, dry_run, requested, entities_to_copy, mappings,
                   stats, files, clock, exit_code, run, nextId, start,
                   creates, processed, last>>

\* A loop that matches against the test account as it is now.
LoopTestEntitiesFresh == remote[TEST][entities_to_copy[ei]]

\* The destination list copy_one is given: the listing fetched before the
\* loop.
LoopTestEntities == test_entities

\* copy(): one iteration of the per-record loop.
CopyStep ==
    /\ pc = "loop"
    /\ \E remoteOk \in {b \in BOOLEAN : ~b => failures < MaxFailures} :
          LET kind == entities_to_copy[ei]
              s == prod_entities[idx]
              ctx == [remote |-> remote, mappings |-> mappings, stats |-> stats]
              newId == "new_" \o ToString(nextId + 1)
          IN \E r \in {CopyLoopBody(kind, s, LoopTestEntities, ctx,
                                    dry_run, remoteOk, newId)} :
             /\ remote' = r.ctx.remote
             /\ mappings' = r.ctx.mappings
             /\ stats' = r.ctx.stats
             /\ nextId' = IF r.ctx.remote[TEST][kind] # remote[TEST][kind]
                             /\ Len(r.ctx.remote[TEST][kind])
                                   > Len(remote[TEST][kind])
                          THEN nextId + 1 ELSE nextId
             /\ failures' = IF \E i \in 1..Len(r.calls) :
                                  r.calls[i].contacted /\ r.calls[i].raised
                            THEN failures + 1 ELSE failures
             /\ creates' = [creates EXCEPT ![kind] = @ +
                              Cardinality({i \in 1..Len(r.calls) :
                                              r.calls[i].op = "create"})]
             /\ processed' = [processed EXCEPT ![kind] = @ + 1]
             /\ last' = [valid |-> TRUE, kind |-> kind, src |-> s,
                         match |-> find_existing(kind, s, LoopTestEntities,
                                                 mappings),
                         calls |-> r.calls, raised |-> r.raised,
                         before |-> [mappings |-> mappings, stats |-> stats]]
    /\ IF idx < Len(prod_entities)
       THEN idx' = idx + 1 /\ UNCHANGED <<pc, ei>>
       ELSE NextKind /\ UNCHANGED idx
    /\ UNCHANGED <<dry_run, requested, entities_to_copy, prod_entities,
                   test_entities, files, clock, exit_code, run, start>>

\* IDMapper.save with the default file name, derived from the clock (one
\* tick of the clock is one second, the resolution of the file name).  The
\* file holds the JSON text of the data: strings stay strings, integers are
\* written as decimal digits.
Snapshot == [mappings |-> mappings, stats |-> stats,
             summary |-> get_summary(stats)]
DefaultFilename(now) == "mapping_" \o ToString(now)
JsonDump(data, now) ==
    [timestamp |-> ToString(now),
     mappings |-> data.mappings,
     stats |-> [k \in DOMAIN data.stats |->
                  [x \in DOMAIN data.stats[k] |-> ToString(data.stats[k][x])]],
     summary |-> [x \in DOMAIN data.summary |-> ToString(data.summary[x])]]
SaveFile(fs, now, data) == (DefaultFilename(now) :> JsonDump(data, now)) @@ fs

\* json.load of an integer: the number the decimal digits denote.
JsonMaxInt == 99
JsonLoadInt(digits) == CHOOSE n \in 0..JsonMaxInt : ToString(n) = digits

\* IDMapper.load that reads the summary totals into every kind's counters.
loadSummary(fs, filepath, mp, st) ==
    IF filepath \notin DOMAIN fs
    THEN [raised |-> TRUE, mappings |-> mp, stats |-> st]
    ELSE [raised |-> FALSE,
          mappings |-> fs[filepath].mappings,
          stats |-> [k \in DOMAIN fs[filepath].stats |->
                       [x \in DOMAIN fs[filepath].stats[k] |->
                           JsonLoadInt(fs[filepath].summary[x])]]]

\* IDMapper.load: FileNotFoundError when the file does not exist, else the
\* mappings and the stats of the file replace those in memory.
load(fs, filepath, mp, st) ==
    IF filepath \notin DOMAIN fs
    THEN [raised |-> TRUE, mappings |-> mp, stats |-> st]
    ELSE [raised |-> FALSE,
          mappings |-> fs[filepath].mappings,
          stats |-> [k \in DOMAIN fs[filepath].stats |->
                       [x \in DOMAIN fs[filepath].stats[k] |->
                           JsonLoadInt(fs[filepath].stats[k][x])]]]

\* main(): the mapping is saved unless the run is a dry run.
SaveMapping ==
    /\ pc = "save"
    /\ files' = IF ~dry_run THEN SaveFile(files, clock, Snapshot) ELSE files
    /\ pc' = "stats"
    /\ UNCHANGED <<remote, dry_run, requested, entities_to_copy, ei,
                   prod_entities, test_entities, idx, mappings, stats, clock,
                   exit_code, run, nextId, start, failures, creates, processed,
                   last>>

\* main(): the final statistics decide the return code.
FinalStatistics ==
    /\ pc = "stats"
    /\ exit_code' = IF get_summary(stats).errors > 0 THEN 1 ELSE 0
    /\ pc' = "exit"
    /\ UNCHANGED <<remote, dry_run, requested, entities_to_copy, ei,
                   prod_entities, test_entities, idx, mappings, stats, files,
                   clock, run, nextId, start, failures, creates, processed, last>>

\* The program is started again with the same arguments on the accounts as
\* the previous run left them: a new process, a new IDMapper.
RunAgain ==
    /\ pc = "exit"
    /\ run = "first"
    /\ run' = "second"
    /\ \E later \in BOOLEAN : clock' = IF later THEN clock + 1 ELSE clock
    /\ pc' = "parse"
    /\ entities_to_copy' = <<>>
    /\ ei' = 0
    /\ prod_entities' = <<>>
    /\ test_entities' = <<>>
    /\ idx' = 0
    /\ mappings' = EmptyMappings
    /\ stats' = ZeroStats
    /\ exit_code' = 0 - 1
    /\ start' = [remote |-> remote, files |-> files]
    /\ creates' = ZeroCounts
    /\ processed' = ZeroCounts
    /\ last' = NoLast
    /\ UNCHANGED <<remote, dry_run, requested, files, nextId, failures>>

\* One run of main().
Next ==
    \/ ParseEntities
    \/ Confirm
    \/ ListKind
    \/ CopyStep
    \/ SaveMapping
    \/ FinalStatistics

Spec == Init /\ [][Next]_vars

\* Two runs of main() in succession.
NextTwice ==
    \/ ParseEntities
    \/ Confirm
    \/ ListKind
    \/ CopyStep
    \/ SaveMapping
    \/ FinalStatistics
    \/ RunAgain

SpecTwice == Init /\ [][NextTwice]_vars

(***************************************************************************)
(* StripeClient on its own: create and update called with any environment, *)
(* in dry-run mode or not, on the accounts of a run that lists products.   *)
(***************************************************************************)
MaxCalls == 2      \* calls of StripeClient.create and StripeClient.update

ClientParams ==
    {Params({"name"} \cup mk, [NoEntity EXCEPT !.name = n, !.meta = m])
        : n \in Names, mk \in {{}, {"metadata"}}, m \in {("prod_id" :> "x")}}

InitClient ==
    /\ requested = <<"products">>
    /\ dry_run \in BOOLEAN
    /\ \E p \in SrcLists("products", 0, {}) \cup SrcLists("products", 1, {}),
          t \in DstLists("products", 0, {}) \cup DstLists("products", 1, {}) :
          remote = [e \in Environment |->
                      [k \in Kinds |->
                          IF k # "products" THEN <<>>
                          ELSE IF e = PRODUCTION THEN p ELSE t]]
    /\ entities_to_copy = <<>>
    /\ ei = 0
    /\ pc = "client"
    /\ prod_entities = <<>>
    /\ test_entities = <<>>
    /\ idx = 0
    /\ mappings = EmptyMappings
    /\ stats = ZeroStats
    /\ files = <<>>
    /\ clock = 0
    /\ exit_code = 0 - 1
    /\ run = "first"
    /\ nextId = 0
    /\ start = [remote |-> remote, files |-> files]
    /\ failures = 0
    /\ creates = ZeroCounts
    /\ processed = ZeroCounts
    /\ last = NoLast

ClientCreateCall ==
    /\ pc = "client"
    /\ nextId < MaxCalls
    /\ \E env \in Environment, params \in ClientParams, remoteOk \in BOOLEAN :
          LET r == ClientCreate(remote, dry_run, "products", env, params,
                                remoteOk, "new_" \o ToString(nextId + 1))
          IN /\ remote' = r.remote
             /\ last' = [NoLast EXCEPT
                           !.valid = TRUE, !.kind = "products",
                           !.calls = <<Call("create", "products", env, NoneV,
                                            params, r)>>,
                           !.raised = r.raised]
    /\ start' = [remote |-> remote, files |-> files]
    /\ nextId' = nextId + 1
    /\ UNCHANGED <<dry_run, requested, entities_to_copy, ei, pc,
                   prod_entities, test_entities, idx, mappings, stats, files,
                   clock, exit_code, run, failures, creates, processed>>

ClientUpdateCall ==
    /\ pc = "client"
    /\ nextId < MaxCalls
    /\ \E env \in Environment, params \in ClientParams, remoteOk \in BOOLEAN :
       \E id \in Ids(remote[env]["products"]) \cup {"missing"} :
          LET r == ClientUpdate(remote, dry_run, "products", id, env, params,
                                remoteOk)
          IN /\ remote' = r.remote
             /\ last' = [NoLast EXCEPT
                           !.valid = TRUE, !.kind = "products",
                           !.calls = <<Call("update", "products", env, id,
                                            params, r)>>,
                           !.raised = r.raised]
    /\ start' = [remote |-> remote, files |-> files]
    /\ nextId' = nextId + 1
    /\ UNCHANGED <<dry_run, requested, entities_to_copy, ei, pc,
                   prod_entities, test_entities, idx, mappings, stats, files,
                   clock, exit_code, run, failures, creates, processed>>

NextClient ==
    \/ ClientCreateCall
    \/ ClientUpdateCall

SpecClient == InitClient /\ [][NextClient]_vars

(***************************************************************************)
(* The pass over the coupons on its own: main() at the start of the        *)
(* per-record loop of the coupons, after a pass over two products that     *)
(* mapped some of them (the others failed).  The coupon refers to up to    *)
(* MaxRefs products, in any order.                                         *)
(***************************************************************************)
MaxRefs == 2       \* product ids in applies_to.products of a coupon

RECURSIVE RefLists(_, _)
RefLists(ids, n) ==
    IF n = 0 THEN {<<>>}
    ELSE RefLists(ids, n - 1)
           \cup {Append(l, p) : l \in {x \in RefLists(ids, n - 1) :
                                           Len(x) = n - 1},
                                p \in ids}

\* The two production products and the test products they are mapped to.
CouponProducts == {SrcId("products", 1), SrcId("products", 2)}
TestProductOf(p) ==
    IF p = SrcId("products", 1) THEN DstId("products", 1)
    ELSE DstId("products", 2)

InitCoupons ==
    /\ requested = <<"products", "coupons">>
    /\ entities_to_copy = <<"products", "coupons">>
    /\ dry_run \in BOOLEAN
    /\ \E mapped \in SUBSET CouponProducts,
          refs \in RefLists(CouponProducts, MaxRefs),
          m \in SrcMetas,
          n \in {NoneV, "n1"} :
          LET coupon == [Entity(SrcId("coupons", 1), n, m)
                            EXCEPT !.applies_to = refs]
              missing == Cardinality(CouponProducts \ mapped)
          IN /\ remote =
                   [production |->
                       [tax_rates |-> <<>>,
                        products |-> <<Entity(SrcId("products", 1), "n1",
                                              EmptyMeta),
                                       Entity(SrcId("products", 2), "n2",
                                              EmptyMeta)>>,
                        prices |-> <<>>,
                        coupons |-> <<coupon>>],
                    test |->
                       [tax_rates |-> <<>>,
                        products |-> <<Entity(DstId("products", 1), "n1",
                                              EmptyMeta),
                                       Entity(DstId("products", 2), "n2",
                                              EmptyMeta)>>,
                        prices |-> <<>>,
                        coupons |-> <<>>]]
             /\ mappings = [EmptyMappings EXCEPT
                               !["products"] =
                                   [p \in mapped |-> TestProductOf(p)]]
             /\ stats = [ZeroStats EXCEPT
                            !["products"]["updated"] = Cardinality(mapped),
                            !["products"]["errors"] = missing]
             /\ failures = IF missing = 0 THEN 0 ELSE MaxFailures
             /\ prod_entities = <<coupon>>
    /\ test_entities = <<>>
    /\ ei = 2
    /\ pc = "loop"
    /\ idx = 1
    /\ files = <<>>
    /\ clock = 0
    /\ exit_code = 0 - 1
    /\ run = "first"
    /\ nextId = 0
    /\ start = [remote |-> remote, files |-> files]
    /\ creates = ZeroCounts
    /\ processed = [ZeroCounts EXCEPT !["products"] = 2]
    /\ last = NoLast

NextCoupons ==
    \/ CopyStep
    \/ SaveMapping
    \/ FinalStatistics

SpecCoupons == InitCoupons /\ [][NextCoupons]_vars

(***************************************************************************)
(* IDMapper on its own: add_mapping, increment_stat, save and load called  *)
(* in any order on a new mapper, with recognized and unrecognized names.   *)
(***************************************************************************)
MaxMapperCalls == 4    \* calls of the IDMapper methods

MapperKinds == {"products", "bogus"}
MapperProdIds == {SrcId("products", 1), SrcId("products", 2)}
MapperTestIds == {DstId("products", 1), DstId("products", 2)}
MapperStatTypes == {"created", "bogus"}

InitMapper ==
    /\ requested = <<>>
    /\ dry_run = FALSE
    /\ remote = [e \in Environment |-> [k \in Kinds |-> <<>>]]
    /\ entities_to_copy = <<>>
    /\ ei = 0
    /\ pc = "mapper"
    /\ prod_entities = <<>>
    /\ test_entities = <<>>
    /\ idx = 0
    /\ mappings = EmptyMappings
    /\ stats = ZeroStats
    /\ files = <<>>
    /\ clock = 0
    /\ exit_code = 0 - 1
    /\ run = "first"
    /\ nextId = 0
    /\ start = [remote |-> remote, files |-> files]
    /\ failures = 0
    /\ creates = ZeroCounts
    /\ processed = ZeroCounts
    /\ last = NoLast

\* What a call of an IDMapper method was given and whether it raised.
MapperCall(op, resource_type, prod_id, test_id, filepath, raised) ==
    [NoLast EXCEPT
        !.valid = TRUE, !.kind = resource_type, !.raised = raised,
        !.calls = <<[op |-> op, resource_type |-> resource_type,
                     prod_id |-> prod_id, test_id |-> test_id,
                     filepath |-> filepath, raised |-> raised]>>,
        !.before = [mappings |-> mappings, stats |-> stats]]

MapperAddMapping ==
    /\ pc = "mapper"
    /\ nextId < MaxMapperCalls
    /\ \E resource_type \in MapperKinds, prod_id \in MapperProdIds,
          test_id \in MapperTestIds :
          LET r == add_mapping(mappings, resource_type, prod_id, test_id)
          IN /\ mappings' = r.mappings
             /\ last' = MapperCall("add_mapping", resource_type, prod_id,
                                   test_id, NoneV, r.raised)
    /\ start' = [remote |-> remote, files |-> files]
    /\ nextId' = nextId + 1
    /\ UNCHANGED <<remote, dry_run, requested, entities_to_copy, ei, pc,
                   prod_entities, test_entities, idx, stats, files, clock,
                   exit_code, run, failures, creates, processed>>

MapperIncrementStat ==
    /\ pc = "mapper"
    /\ nextId < MaxMapperCalls
    /\ \E resource_type \in MapperKinds, stat_type \in MapperStatTypes :
          /\ stats' = increment_stat(stats, resource_type, stat_type)
          /\ last' = MapperCall("increment_stat", resource_type, NoneV,
                                NoneV, NoneV, FALSE)
    /\ start' = [remote |-> remote, files |-> files]
    /\ nextId' = nextId + 1
    /\ UNCHANGED <<remote, dry_run, requested, entities_to_copy, ei, pc,
                   prod_entities, test_entities, idx, mappings, files, clock,
                   exit_code, run, failures, creates, processed>>

\* save() with the default file name, in the second of the previous call
\* or in a later one.
MapperSave ==
    /\ pc = "mapper"
    /\ nextId < MaxMapperCalls
    /\ \E later \in BOOLEAN :
          /\ clock' = IF later THEN clock + 1 ELSE clock
          /\ files' = SaveFile(files, clock', Snapshot)
          /\ last' = MapperCall("save", NoneV, NoneV, NoneV,
                                DefaultFilename(clock'), FALSE)
    /\ start' = [remote |-> remote, files |-> files]
    /\ nextId' = nextId + 1
    /\ UNCHANGED <<remote, dry_run, requested, entities_to_copy, ei, pc,
                   prod_entities, test_entities, idx, mappings, stats,
                   exit_code, run, failures, creates, processed>>

MapperLoad ==
    /\ pc = "mapper"
    /\ nextId < MaxMapperCalls
    /\ \E filepath \in DOMAIN files \cup {"missing"} :
          LET r == load(files, filepath, mappings, stats)
          IN /\ mappings' = r.mappings
             /\ stats' = r.stats
             /\ last' = MapperCall("load", NoneV, NoneV, NoneV, filepath,
                                   r.raised)
    /\ start' = [remote |-> remote, files |-> files]
    /\ nextId' = nextId + 1
    /\ UNCHANGED <<remote, dry_run, requested, entities_to_copy, ei, pc,
                   prod_entities, test_entities, idx, files, clock,
                   exit_code, run, failures, creates, processed>>

NextMapper ==
    \/ MapperAddMapping
    \/ MapperIncrementStat
    \/ MapperSave
    \/ MapperLoad

SpecMapper == InitMapper /\ [][NextMapper]_vars

(***************************************************************************)
(* find_existing on its own: each copier's matching applied to one source  *)
(* record and a destination listing of up to MaxMatchDst records, whose    *)
(* records agree with the source record or differ from it in the           *)
(* attributes the matching reads.  Ids are unique in a listing.            *)
(***************************************************************************)
MaxMatchDst == 2   \* records of the destination listing find_existing reads

\* The metadata of a destination record: none, keys without prod_id, the
\* tag of the source record, the tag of another source record.
MatchMetas(kind) ==
    {EmptyMeta, ("k" :> "v"),
     ("prod_id" :> SrcId(kind, 1)), ("prod_id" :> SrcId(kind, 2))}

Recurrings == {<<>>, <<"month", 1>>, <<"month", 3>>}

\* The source record find_existing is given.
MatchSources(kind) ==
    CASE kind = "tax_rates" ->
           {[Entity(SrcId(kind, 1), "n1", EmptyMeta) EXCEPT
                !.pct = 200000, !.jur = j] : j \in {NoneV, "EU"}}
      [] kind = "products" ->
           {Entity(SrcId(kind, 1), "n1", EmptyMeta)}
      [] kind = "prices" ->
           {[Entity(SrcId(kind, 1), NoneV, EmptyMeta) EXCEPT
                !.product = SrcId("products", 1), !.currency = "usd",
                !.unit_amount = a, !.lookup_key = lk, !.recurring = rec]
               : a \in {NoAmount, 1000}, lk \in LookupKeys,
                 rec \in {<<>>, <<"month", 1>>}}
      [] kind = "coupons" ->
           {Entity(SrcId(kind, 1), n, EmptyMeta) : n \in {NoneV, "n1"}}

\* The records the destination listing may hold at position j.  A price
\* takes every combination of the attributes the structural rule compares;
\* a lookup_key or a tag is carried by a price the structural rule accepts
\* for some source and by one it accepts for none.
MatchDstRecords(kind, j) ==
    CASE kind = "tax_rates" ->
           {[Entity(DstId(kind, j), n, m) EXCEPT !.pct = p, !.jur = jur]
               : n \in Names, p \in {200000, 200050, 200100},
                 jur \in {NoneV, "EU"},
                 m \in MatchMetas(kind)}
      [] kind = "products" ->
           {Entity(DstId(kind, j), n, m) : n \in Names, m \in MatchMetas(kind)}
      [] kind = "prices" ->
           {[Entity(DstId(kind, j), NoneV, EmptyMeta) EXCEPT
                !.product = p, !.currency = ca[1], !.unit_amount = ca[2],
                !.recurring = rec]
               : p \in {DstId("products", 1), DstId("products", 2)},
                 ca \in {<<"usd", 1000>>, <<"eur", 1000>>, <<"usd", 2000>>},
                 rec \in Recurrings}
           \cup
           {[Entity(DstId(kind, j), NoneV, lm[2]) EXCEPT
                !.product = p, !.currency = "usd", !.unit_amount = 1000,
                !.lookup_key = lm[1]]
               : p \in {DstId("products", 1), DstId("products", 2)},
                 lm \in {<<"lk", EmptyMeta>>,
                         <<NoneV, ("prod_id" :> SrcId(kind, 1))>>}}
      [] kind = "coupons" ->
           {Entity(id, n, m)
               : id \in {DstId(kind, j), "test_" \o SrcId(kind, 1)},
                 n \in Names \cup {NoneV}, m \in MatchMetas(kind)}

\* The destination listing made of the records `choice` (records of
\* position 1), the record at position j given the id of position j.
MatchList(kind, choice) ==
    [j \in DOMAIN choice |->
        IF choice[j].id = DstId(kind, 1)
        THEN [choice[j] EXCEPT !.id = DstId(kind, j)]
        ELSE choice[j]]

\* The products mappings a pass over the prices may find.
MatchMappings(kind) ==
    IF kind = "prices"
    THEN {EmptyMappings,
          [EmptyMappings EXCEPT !["products"] =
              (SrcId("products", 1) :> DstId("products", 1))]}
    ELSE {EmptyMappings}

InitMatch ==
    /\ requested \in {<<k>> : k \in Kinds}
    /\ entities_to_copy = requested
    /\ dry_run = FALSE
    /\ prod_entities \in {<<s>> : s \in MatchSources(requested[1])}
    /\ \E n \in 0..MaxMatchDst :
          \E choice \in [1..n -> MatchDstRecords(requested[1], 1)] :
             /\ test_entities = MatchList(requested[1], choice)
             /\ Cardinality(Ids(test_entities)) = n
    /\ mappings \in MatchMappings(requested[1])
    /\ remote = [production |-> [k \in Kinds |->
                                    IF k = requested[1] THEN prod_entities
                                    ELSE <<>>],
                 test |-> [k \in Kinds |->
                              IF k = requested[1] THEN test_entities
                              ELSE <<>>]]
    /\ ei = 1
    /\ pc = "match"
    /\ idx = 1
    /\ stats = ZeroStats
    /\ files = <<>>
    /\ clock = 0
    /\ exit_code = 0 - 1
    /\ run = "first"
    /\ nextId = 0
    /\ start = [remote |-> remote, files |-> files]
    /\ failures = 0
    /\ creates = ZeroCounts
    /\ processed = ZeroCounts
    /\ last = NoLast

\* copy_one(): existing = self.find_existing(prod_entity, test_entities)
FindExistingCall ==
    /\ pc = "match"
    /\ LET kind == entities_to_copy[ei]
           s == prod_entities[idx]
       IN last' = [NoLast EXCEPT
                      !.valid = TRUE, !.kind = kind, !.src = s,
                      !.match = find_existing(kind, s, test_entities,
                                              mappings),
                      !.before = [mappings |-> mappings, stats |-> stats]]
    /\ pc' = "matched"
    /\ UNCHANGED <<remote, dry_run, requested, entities_to_copy, ei,
                   prod_entities, test_entities, idx, mappings, stats, files,
                   clock, exit_code, run, nextId, start, failures, creates,
                   processed>>

NextMatch == FindExistingCall

SpecMatch == InitMatch /\ [][NextMatch]_vars

(***************************************************************************)
(* get_create_params and get_update_params on their own: each copier's     *)
(* parameter building applied to one source record, with the products      *)
(* mapping a price or a coupon is resolved through empty or filled.         *)
(***************************************************************************)
\* The metadata of a source record: none, keys without prod_id, a prod_id
\* copied from elsewhere.
ParamMetas == {EmptyMeta, ("k" :> "v"), ("prod_id" :> "stale")}

\* The source record the parameters are built from.  A price has a
\* unit_amount (possibly 0), a unit_amount_decimal, both, or neither (a
\* tiered price).
ParamSources(kind) ==
    CASE kind = "tax_rates" ->
           {[Entity(SrcId(kind, 1), n, m) EXCEPT !.pct = 200000, !.jur = j]
               : n \in Names, j \in {NoneV, "EU"}, m \in ParamMetas}
      [] kind = "products" ->
           {Entity(SrcId(kind, 1), n, m) : n \in Names, m \in ParamMetas}
      [] kind = "prices" ->
           {[Entity(SrcId(kind, 1), NoneV, m) EXCEPT
                !.product = SrcId("products", 1), !.currency = "usd",
                !.unit_amount = a, !.unit_amount_decimal = d,
                !.lookup_key = lk, !.recurring = rec]
               : a \in {NoAmount, 0, 1000}, d \in {NoneV, "1050.5"},
                 lk \in LookupKeys, rec \in {<<>>, <<"month", 1>>},
                 m \in ParamMetas}
      [] kind = "coupons" ->
           {[Entity(SrcId(kind, 1), n, m) EXCEPT !.applies_to = a]
               : n \in {NoneV, "n1"}, m \in ParamMetas,
                 a \in {<<>>, <<SrcId("products", 1)>>}}

ParamMappings(kind) ==
    IF kind \in {"prices", "coupons"}
    THEN {EmptyMappings,
          [EmptyMappings EXCEPT !["products"] =
              (SrcId("products", 1) :> DstId("products", 1))]}
    ELSE {EmptyMappings}

InitParams ==
    /\ requested \in {<<k>> : k \in Kinds}
    /\ entities_to_copy = requested
    /\ dry_run = FALSE
    /\ prod_entities \in {<<s>> : s \in ParamSources(requested[1])}
    /\ test_entities = <<>>
    /\ mappings \in ParamMappings(requested[1])
    /\ remote = [production |-> [k \in Kinds |->
                                    IF k = requested[1] THEN prod_entities
                                    ELSE <<>>],
                 test |-> [k \in Kinds |-> <<>>]]
    /\ ei = 1
    /\ pc = "params"
    /\ idx = 1
    /\ stats = ZeroStats
    /\ files = <<>>
    /\ clock = 0
    /\ exit_code = 0 - 1
    /\ run = "first"
    /\ nextId = 0
    /\ start = [remote |-> remote, files |-> files]
    /\ failures = 0
    /\ creates = ZeroCounts
    /\ processed = ZeroCounts
    /\ last = NoLast

\* What a parameter builder was given and what it returned.
ParamsCall(op, kind, s, params, raised) ==
    [NoLast EXCEPT
        !.valid = TRUE, !.kind = kind, !.src = s, !.raised = raised,
        !.calls = <<[op |-> op, params |-> params, raised |-> raised]>>,
        !.before = [mappings |-> mappings, stats |-> stats]]

\* create_in_test(): params = self.get_create_params(prod_entity)
GetCreateParamsCall ==
    /\ pc = "params"
    /\ LET kind == entities_to_copy[ei]
           s == prod_entities[idx]
       IN \E r \in {get_create_params(kind, s, mappings)} :
             last' = ParamsCall("get_create_params", kind, s, r.params,
                                r.raised)
    /\ pc' = "built"
    /\ UNCHANGED <<remote, dry_run, requested, entities_to_copy, ei,
                   prod_entities, test_entities, idx, mappings, stats, files,
                   clock, exit_code, run, nextId, start, failures, creates,
                   processed>>

\* update_in_test(): params = self.get_update_params(prod_entity), reached
\* only for a kind that can be updated.
GetUpdateParamsCall ==
    /\ pc = "params"
    /\ can_update(entities_to_copy[ei])
    /\ LET kind == entities_to_copy[ei]
           s == prod_entities[idx]
       IN last' = ParamsCall("get_update_params", kind, s,
                             get_update_params(kind, s), FALSE)
    /\ pc' = "built"
    /\ UNCHANGED <<remote, dry_run, requested, entities_to_copy, ei,
                   prod_entities, test_entities, idx, mappings, stats, files,
                   clock, exit_code, run, nextId, start, failures, creates,
                   processed>>

NextParams ==
    \/ GetCreateParamsCall
    \/ GetUpdateParamsCall

SpecParams == InitParams /\ [][NextParams]_vars

(***************************************************************************)
(* StripeClient.list_all on its own: the pagination loop, one request per  *)
(* step, against a remote that serves a finite collection in pages.  In    *)
(* this specification `last` holds the local variables of list_all         *)
(* (all_items, has_more, starting_after) and the cursor of each request    *)
(* issued so far.  The remote returns at most `limit` records per page and *)
(* may return fewer, none included.                                        *)
(***************************************************************************)
MaxItems == 3      \* records of the collection list_all reads
PageLimit == 2     \* 'limit' of a list request (100 in the code)
MaxRequests == 4   \* list requests issued by one call of list_all

\* The collections of a resource the remote may hold.
ListAllCollections(resource) ==
    {[i \in 1..n |-> Entity(SrcId(resource, i), "n1", EmptyMeta)]
        : n \in 0..MaxItems}

\* The records of `items` after the record with id `starting_after` (after
\* none when the request has no starting_after).
After(items, starting_after) ==
    SubSeq(items, IndexOfId(items, starting_after) + 1, Len(items))

\* A page the remote may return for a list request: the first k records
\* after the cursor, k at most the limit, and whether records remain after
\* the page.
Page(items, starting_after, k) ==
    [data |-> SubSeq(After(items, starting_after), 1, k),
     has_more |-> k < Len(After(items, starting_after))]

PageSizes(items, starting_after, limit) ==
    {k \in 0..limit : k <= Len(After(items, starting_after))}

InitListAll ==
    /\ requested \in {<<k>> : k \in Kinds}
    /\ entities_to_copy = requested
    /\ dry_run \in BOOLEAN
    /\ \E c \in ListAllCollections(requested[1]) :
          remote = [e \in Environment |-> [k \in Kinds |->
                       IF e = PRODUCTION /\ k = requested[1] THEN c
                       ELSE <<>>]]
    /\ ei = 1
    /\ pc = "list_all"
    /\ prod_entities = <<>>
    /\ test_entities = <<>>
    /\ idx = 0
    /\ mappings = EmptyMappings
    /\ stats = ZeroStats
    /\ files = <<>>
    /\ clock = 0
    /\ exit_code = 0 - 1
    /\ run = "first"
    /\ nextId = 0
    /\ start = [remote |-> remote, files |-> files]
    /\ failures = 0
    /\ creates = ZeroCounts
    /\ processed = ZeroCounts
    /\ last = [valid |-> TRUE, all_items |-> <<>>, has_more |-> TRUE,
               starting_after |-> NoneV, requests |-> <<>>]

\* The collection the call reads: list_all(resource, PRODUCTION).
ListAllItems == remote[PRODUCTION][requested[1]]

\* One iteration of `while has_more:`: the request, all_items.extend, and
\* the cursor moved to the last record of the page when the page reports
\* has_more and is not empty.  A StripeError leaves list_all by raising.
ListAllRequest ==
    /\ pc = "list_all"
    /\ last.has_more
    /\ Len(last.requests) < MaxRequests
    /\ \E ok \in {b \in BOOLEAN : ~b => failures < MaxFailures},
          k \in PageSizes(ListAllItems, last.starting_after, PageLimit) :
          LET response == Page(ListAllItems, last.starting_after, k)
          IN IF ~ok
             THEN /\ failures' = failures + 1
                  /\ pc' = "raised"
                  /\ last' = [last EXCEPT
                                 !.requests = Append(@, last.starting_after)]
             ELSE /\ last' = [last EXCEPT
                       !.requests = Append(@, last.starting_after),
                       !.all_items = @ \o response.data,
                       !.has_more = response.has_more,
                       !.starting_after =
                           IF response.has_more /\ response.data # <<>>
                           THEN response.data[Len(response.data)].id
                           ELSE @]
                  /\ UNCHANGED <<pc, failures>>
    /\ UNCHANGED <<remote, dry_run, requested, entities_to_copy, ei,
                   prod_entities, test_entities, idx, mappings, stats, files,
                   clock, exit_code, run, nextId, start, creates, processed>>

\* The loop has ended: return all_items.
ListAllReturn ==
    /\ pc = "list_all"
    /\ ~last.has_more
    /\ prod_entities' = last.all_items
    /\ pc' = "listed"
    /\ UNCHANGED <<remote, dry_run, requested, entities_to_copy, ei,
                   test_entities, idx, mappings, stats, files, clock,
                   exit_code, run, nextId, start, failures, creates,
                   processed, last>>

NextListAll ==
    \/ ListAllRequest
    \/ ListAllReturn

SpecListAll == InitListAll /\ [][NextListAll]_vars

(***************************************************************************)
(* Properties.                                                             *)
(***************************************************************************)
LastCalls == {last.calls[i] : i \in 1..Len(last.calls)}

\* C1: StripeClient.create and StripeClient.update called with the
\* production environment always raise, in dry-run mode or not; the Stripe
\* API is not contacted, no simulated record is returned and the accounts
\* are left as they were.
C1_ProductionWriteForbidden ==
    last.valid =>
        \A c \in LastCalls :
            c.env = PRODUCTION =>
                /\ c.raised
                /\ ~c.contacted
                /\ ~c.simulated
                /\ remote = start.remote

C1_Witness ==
    /\ last.valid
    /\ dry_run
    /\ \E c \in LastCalls : c.env = PRODUCTION /\ c.op = "create" /\ c.raised

StatSum(st, k) == st[k]["created"] + st[k]["updated"] + st[k]["errors"]
Delta(k, x) == stats[k][x] - last.before.stats[k][x]

\* C2: in every run the production account is unchanged: every create or
\* update a copier issues targets the test environment.
C2_ProductionReadOnly ==
    /\ remote[PRODUCTION] = start.remote[PRODUCTION]
    /\ last.valid =>
          \A c \in LastCalls : c.op \in {"create", "update"} /\ c.env = TEST

C2_Witness ==
    /\ last.valid
    /\ remote[PRODUCTION][last.kind] # <<>>
    /\ remote[TEST] # start.remote[TEST]
    /\ \E c \in LastCalls : c.op = "create" /\ c.contacted /\ ~c.raised

\* The case of C3: dry-run off, the last source record processed had no
\* match in the listing of the test account.
C3_Case == last.valid /\ ~dry_run /\ last.match = NoEntity

\* The create params of the last source record can be built: it is not a
\* price whose product has no products mapping.
C3_ParamsBuilt ==
    (last.kind = "prices") =>
        Truthy(get_test_id(last.before.mappings, "products",
                           last.src.product))

\* Exactly one create was issued for the last source record, to the test
\* environment, with metadata.prod_id = s.id; when the create returned,
\* mapping[kind][s.id] is the id of the created record, created has grown
\* by one, and nothing else of the mapping or the counters has changed.
C3_OneCreateRecorded ==
    LET k == last.kind
        s == last.src
    IN /\ Len(last.calls) = 1
       /\ \A c \in LastCalls :
             /\ c.op = "create" /\ c.env = TEST /\ c.resource = k
             /\ "metadata" \in c.params.keys
             /\ MetaProdId(c.params.vals.meta) = s.id
             /\ ~c.raised =>
                   /\ ~last.raised
                   /\ s.id \in DOMAIN mappings[k]
                   /\ mappings[k][s.id] \notin Ids(start.remote[TEST][k])
                   /\ \E i \in 1..Len(remote[TEST][k]) :
                         /\ remote[TEST][k][i].id = mappings[k][s.id]
                         /\ MetaProdId(remote[TEST][k][i].meta) = s.id
                   /\ mappings = [last.before.mappings EXCEPT
                                     ![k] = (s.id :> mappings[k][s.id]) @@ @]
                   /\ stats = [last.before.stats EXCEPT
                                  ![k]["created"] = @ + 1]

\* C3 as claimed: with dry-run off, every source record s without a match
\* issues exactly one create whose params carry metadata.prod_id = s.id,
\* then mapping[kind][s.id] is the id of the created record and created has
\* grown by one.
C3_EveryUnmatchedRecordCreates == C3_Case => C3_OneCreateRecorded

\* C3 as amended: with dry-run off, a source record s without a match whose
\* create params can be built issues exactly one create whose params carry
\* metadata.prod_id = s.id, whatever prod_id the source metadata held, then
\* mapping[kind][s.id] is the id of the created record and created has
\* grown by one; a price whose product has no products mapping issues no
\* create, records no mapping and is not counted as created.
C3_CreateRecordsMapping ==
    C3_Case =>
        IF C3_ParamsBuilt
        THEN C3_OneCreateRecorded
        ELSE /\ last.calls = <<>>
             /\ mappings = last.before.mappings
             /\ Delta(last.kind, "created") = 0

\* One source product whose metadata holds a stale prod_id, an empty test
\* account: counters {created: 1, updated: 0, errors: 0}, one mapping entry.
C3_Witness ==
    /\ last.valid /\ ~dry_run /\ last.match = NoEntity /\ ~last.raised
    /\ last.kind = "products"
    /\ MetaProdId(last.src.meta) = "stale"
    /\ start.remote[TEST]["products"] = <<>>
    /\ stats["products"] = [created |-> 1, updated |-> 0, errors |-> 0]
    /\ DOMAIN mappings["products"] = {last.src.id}

\* C4: for tax rates, products and coupons, a source record s matched to m
\* issues one update against m.id and no create; when the update returns,
\* mapping[kind][s.id] = m.id and updated has grown by one.
C4_UpdateRecordsMapping ==
    (last.valid /\ last.match # NoEntity
       /\ last.kind \in {"tax_rates", "products", "coupons"}) =>
        LET k == last.kind
            s == last.src
        IN /\ Len(last.calls) = 1
           /\ \A c \in LastCalls :
                 /\ c.op = "update" /\ c.env = TEST /\ c.resource = k
                 /\ c.id = last.match.id
                 /\ ~c.raised =>
                       /\ ~last.raised
                       /\ mappings = [last.before.mappings EXCEPT
                                         ![k] = (s.id :> last.match.id) @@ @]
                       /\ stats = [last.before.stats EXCEPT
                                      ![k]["updated"] = @ + 1]

C4_Witness ==
    /\ last.valid /\ last.match # NoEntity /\ ~last.raised
    /\ last.kind = "coupons"
    /\ mappings["coupons"][last.src.id] = last.match.id
    /\ stats["coupons"]["updated"] = 1

\* C5: a source price that matches a price of the test account changes
\* nothing: no create, no update, no counter, no mapping entry.
C5_MatchedPriceUntouched ==
    (last.valid /\ last.kind = "prices" /\ last.match # NoEntity) =>
        /\ last.calls = <<>>
        /\ ~last.raised
        /\ stats = last.before.stats
        /\ mappings = last.before.mappings
        /\ last.src.id \notin DOMAIN mappings["prices"]

C5_Witness ==
    /\ last.valid /\ last.kind = "prices" /\ last.match # NoEntity
    /\ processed["prices"] = 1

\* C6 as claimed: created + updated + errors of a kind grows by one with
\* every source record processed.
C6_ExactlyOneCounterPerRecord ==
    \A k \in Kinds : StatSum(stats, k) = processed[k]

\* C6 as amended: a processed source record increments at most one of the
\* three counters of its kind, by one: exactly one, except a price matched
\* to an existing price, which increments none.  An error is counted exactly
\* when the record failed, never together with created or updated.
C6_AtMostOneCounterPerRecord ==
    /\ last.valid =>
          LET k == last.kind
              untouched == last.match # NoEntity /\ k = "prices"
          IN /\ \A x \in StatTypes : Delta(k, x) \in {0, 1}
             /\ Delta(k, "created") + Delta(k, "updated") + Delta(k, "errors")
                   = IF untouched THEN 0 ELSE 1
             /\ (Delta(k, "errors") = 1) <=> last.raised
             /\ \A j \in Kinds \ {k} : stats[j] = last.before.stats[j]
    /\ \A k \in Kinds :
          /\ StatSum(stats, k) <= processed[k]
          /\ k # "prices" => StatSum(stats, k) = processed[k]

C6_Witness ==
    /\ last.valid /\ last.kind = "prices" /\ last.match # NoEntity
    /\ processed["prices"] = 2
    /\ StatSum(stats, "prices") = 1

\* C7: a source price without a match whose product has no products mapping
\* counts one error, issues no create and records no mapping; the loop goes
\* on with the next source price, and a kind whose loop has ended has had
\* every source record processed.
C7_UnmappedProductIsOneError ==
    /\ (last.valid /\ last.kind = "prices" /\ last.match = NoEntity
          /\ ~Truthy(get_test_id(last.before.mappings, "products",
                                 last.src.product))) =>
          /\ last.calls = <<>>
          /\ last.raised
          /\ mappings = last.before.mappings
          /\ stats = [last.before.stats EXCEPT !["prices"]["errors"] = @ + 1]
          /\ (processed["prices"] < Len(remote[PRODUCTION]["prices"])) =>
                /\ pc = "loop"
                /\ prod_entities[idx].id
                      = remote[PRODUCTION]["prices"][processed["prices"] + 1].id
    /\ \A k \in Kinds :
          (pc = "loop" /\ entities_to_copy[ei] = k)
          \/ processed[k] \in {0, Len(remote[PRODUCTION][k])}

\* Two source prices of an unmapped product: the first fails, the second is
\* processed all the same.
C7_Witness ==
    /\ last.valid /\ last.kind = "prices" /\ last.match = NoEntity
    /\ ~Truthy(get_test_id(last.before.mappings, "products", last.src.product))
    /\ processed["prices"] = 2
    /\ stats["prices"]["errors"] = 2

\* C8 as claimed: when the synchronization has run once with dry-run off and
\* no Stripe API call has failed, a second run issues no create.
C8_SecondRunCreatesNothing ==
    (run = "second" /\ ~dry_run /\ failures = 0 /\ start.files # <<>>) =>
        \A k \in Kinds : creates[k] = 0

\* C9: in dry-run mode no create or update reaches the Stripe API and no
\* snapshot is written: the test account and the snapshot files stay as
\* they were before the run.
C9_DryRunWritesNothing ==
    dry_run =>
        /\ remote = start.remote
        /\ files = start.files
        /\ last.valid => \A c \in LastCalls : ~c.contacted

C9_Witness ==
    /\ dry_run
    /\ pc = "exit"
    /\ exit_code >= 0
    /\ \E k \in Kinds : creates[k] > 0 /\ processed[k] = 2

\* C10 as claimed: in dry-run mode a source record without a match, whose
\* create params can be built, is counted as created and not as an error,
\* and a run without another failure ends with exit code 0.
C10_DryRunCountsCreated ==
    /\ (last.valid /\ dry_run /\ last.match = NoEntity /\ last.calls # <<>>) =>
          /\ Delta(last.kind, "created") = 1
          /\ Delta(last.kind, "errors") = 0
    /\ (dry_run /\ pc = "exit" /\ failures = 0
          /\ (\E k \in Kinds : processed[k] > 0)
          /\ \A k \in Kinds : processed[k] = creates[k]) => exit_code = 0

\* C11 as claimed: when products are selected together with prices or
\* coupons, every product record is processed before any price or coupon
\* record, in whatever order the kinds were written in --entities.
C11_ProductsBeforeDependents ==
    ("products" \in Range(entities_to_copy) /\ failures = 0
       /\ (processed["prices"] > 0 \/ processed["coupons"] > 0)) =>
        processed["products"] = Len(remote[PRODUCTION]["products"])

\* The errors summed over the four kinds.
ErrorsTotal ==
    stats["tax_rates"]["errors"] + stats["products"]["errors"]
        + stats["prices"]["errors"] + stats["coupons"]["errors"]

\* A run that got past the confirmation has ended.
RunCompleted == pc = "exit" /\ ei >= 1

KindsDone ==
    {entities_to_copy[i] : i \in {j \in 1..Len(entities_to_copy) :
                                     j < ei \/ pc \in {"save", "stats", "exit"}}}

\* The step of copy() in which listing the source or the test records of
\* the current kind fails.
ListingFails == pc = "list" /\ failures' = failures + 1

\* C13: when listing the source or the destination records of a kind fails,
\* no record of that kind is processed (no create, update, mapping or
\* counter change, in that step or later in the run), and the run goes on
\* to list the next kind.
C13_ListFailureSkipsKindOnly ==
    /\ [](ei >= 1 =>
            \A k \in KindsDone :
               \/ processed[k] = Len(remote[PRODUCTION][k])
               \/ /\ processed[k] = 0
                  /\ creates[k] = 0
                  /\ stats[k] = ZeroStats[k]
                  /\ mappings[k] = <<>>
                  /\ remote[TEST][k] = start.remote[TEST][k])
    /\ [][ListingFails =>
            /\ processed[entities_to_copy[ei]] = 0
            /\ UNCHANGED <<remote, mappings, stats, creates, processed, last>>
            /\ IF ei < Len(entities_to_copy)
               THEN pc' = "list" /\ ei' = ei + 1
               ELSE pc' = "save"]_vars

\* The listing of the first kind failed, its source records were left
\* alone, and the source records of the second kind were all processed.
C13_Witness ==
    /\ RunCompleted
    /\ failures = 1
    /\ Len(entities_to_copy) = 2
    /\ remote[PRODUCTION][entities_to_copy[1]] # <<>>
    /\ processed[entities_to_copy[1]] = 0
    /\ processed[entities_to_copy[2]] = Len(remote[PRODUCTION][entities_to_copy[2]])
    /\ processed[entities_to_copy[2]] > 0

\* C14 as claimed: no two distinct production ids of a kind map to the same
\* test id.
C14_MappingInjective ==
    \A k \in Kinds :
        \A p1 \in DOMAIN mappings[k], p2 \in DOMAIN mappings[k] :
            mappings[k][p1] = mappings[k][p2] => p1 = p2

\* The test ids of the references of `refs` that have a products mapping,
\* in the order of `refs`.
ResolvedRefs(refs, mp) ==
    LET known == SelectSeq(refs, LAMBDA p : p \in DOMAIN mp["products"])
    IN [i \in 1..Len(known) |-> mp["products"][known[i]]]

\* C15: with dry-run off, an unmatched source coupon is created whatever
\* products its applies_to refers to: the create carries as
\* applies_to.products the mapped test ids of the resolvable references, in
\* source order, the unresolvable ones dropped (no applies_to at all when
\* none resolves); when the create returns the coupon is counted as created,
\* not as an error, and the stored coupon has that list.
C15_UnmappedCouponProductsDropped ==
    (last.valid /\ ~dry_run /\ last.kind = "coupons"
       /\ last.match = NoEntity) =>
        LET s == last.src
            resolved == ResolvedRefs(s.applies_to, last.before.mappings)
        IN /\ Len(last.calls) = 1
           /\ \A c \in LastCalls :
                 /\ c.op = "create" /\ c.resource = "coupons"
                 /\ c.params.vals.applies_to = resolved
                 /\ ("applies_to" \in c.params.keys) <=> (resolved # <<>>)
                 /\ ~c.raised =>
                       /\ ~last.raised
                       /\ Delta("coupons", "created") = 1
                       /\ Delta("coupons", "errors") = 0
                       /\ \E i \in 1..Len(remote[TEST]["coupons"]) :
                             /\ remote[TEST]["coupons"][i].id
                                   = mappings["coupons"][s.id]
                             /\ remote[TEST]["coupons"][i].applies_to
                                   = resolved

\* A coupon of two products of which only the second is mapped: created
\* with the second product alone.
C15_Witness ==
    /\ last.valid /\ ~dry_run /\ last.kind = "coupons" /\ ~last.raised
    /\ last.src.applies_to = <<SrcId("products", 1), SrcId("products", 2)>>
    /\ DOMAIN last.before.mappings["products"] = {SrcId("products", 2)}
    /\ stats["coupons"] = [created |-> 1, updated |-> 0, errors |-> 0]
    /\ remote[TEST]["coupons"][1].applies_to = <<DstId("products", 2)>>

\* The call of the IDMapper method `op` is the last step taken.
LastMapperCall(op) == last.valid /\ last.calls # <<>> /\ last.calls[1].op = op

\* C16 as claimed: a save() with the default file name writes a file that
\* did not exist before, and every earlier snapshot is still there with
\* the contents it had.
C16_SaveNeverOverwrites ==
    LastMapperCall("save") =>
        /\ last.calls[1].filepath \notin DOMAIN start.files
        /\ \A f \in DOMAIN start.files :
              f \in DOMAIN files /\ files[f] = start.files[f]

\* The recognized kinds of `requested`, in the order written.
RecognizedKinds == SelectSeq(requested, LAMBDA e : e \in Kinds)

\* C17: with no valid kind requested the run exits with code 1, and when
\* the user declines the confirmation it exits with code 0; in both cases
\* nothing was listed, created or updated and no snapshot was written.  The
\* kinds that run are the recognized names of --entities in the order
\* written, the unrecognized ones skipped.
C17_EarlyExitsTouchNothing ==
    /\ pc # "parse" => entities_to_copy = RecognizedKinds
    /\ (pc = "exit" /\ ei = 0) =>
          /\ exit_code = (IF RecognizedKinds = <<>> THEN 1 ELSE 0)
          /\ (exit_code = 0 => ~dry_run)
          /\ remote = start.remote
          /\ files = start.files
          /\ ~last.valid
          /\ failures = 0
          /\ prod_entities = <<>> /\ test_entities = <<>>
          /\ mappings = EmptyMappings /\ stats = ZeroStats
    /\ ei >= 1 => RecognizedKinds # <<>>

\* The user declined a run that asked for an unrecognized kind and prices.
C17_Witness ==
    /\ pc = "exit" /\ ei = 0 /\ exit_code = 0
    /\ requested = <<"bogus", "prices">>
    /\ entities_to_copy = <<"prices">>
    /\ remote[PRODUCTION]["prices"] # <<>>

\* C18: add_mapping with an unrecognized kind raises and leaves the table
\* as it was; with a recognized kind it sets mapping[kind][prodId] = testId,
\* replacing any prior value, so that get_test_id(kind, prodId) returns the
\* testId added last, and every other entry is unchanged.
C18_AddMappingOverwritesOneEntry ==
    LastMapperCall("add_mapping") =>
        LET c == last.calls[1]
            old == last.before.mappings
        IN IF c.resource_type \notin Kinds
           THEN c.raised /\ mappings = old
           ELSE /\ ~c.raised
                /\ get_test_id(mappings, c.resource_type, c.prod_id) = c.test_id
                /\ DOMAIN mappings = DOMAIN old
                /\ \A k \in DOMAIN mappings :
                      /\ DOMAIN mappings[k] =
                            DOMAIN old[k] \cup
                               (IF k = c.resource_type THEN {c.prod_id} ELSE {})
                      /\ \A p \in DOMAIN old[k] :
                            (k # c.resource_type \/ p # c.prod_id) =>
                                mappings[k][p] = old[k][p]

\* The production id already had another test id, and the kind holds an
\* entry of another production id.
C18_Witness ==
    /\ LastMapperCall("add_mapping")
    /\ ~last.raised
    /\ last.calls[1].prod_id \in DOMAIN last.before.mappings["products"]
    /\ last.before.mappings["products"][last.calls[1].prod_id]
          # last.calls[1].test_id
    /\ Cardinality(DOMAIN mappings["products"]) = 2

\* C19: loading the snapshot a save() has just written gives back exactly
\* the mappings and the per-kind counters in memory at the save; a load of
\* an existing snapshot replaces the mappings and the counters in memory by
\* those the file holds; a load of a location that does not exist raises
\* and leaves the mappings and the counters in memory unchanged.
C19_SaveLoadRoundTrip ==
    /\ LastMapperCall("save") =>
          LET r == load(files, last.calls[1].filepath, EmptyMappings,
                        ZeroStats)
          IN ~r.raised /\ r.mappings = mappings /\ r.stats = stats
    /\ LastMapperCall("load") =>
          LET f == last.calls[1].filepath
          IN IF f \in DOMAIN files
             THEN /\ ~last.raised
                  /\ mappings = files[f].mappings
                  /\ DOMAIN stats = Kinds
                  /\ \A k \in Kinds :
                        /\ DOMAIN stats[k] = StatTypes
                        /\ \A x \in StatTypes :
                              ToString(stats[k][x]) = files[f].stats[k][x]
             ELSE /\ last.raised
                  /\ mappings = last.before.mappings
                  /\ stats = last.before.stats

\* A snapshot loaded after the mappings in memory had changed since it was
\* saved.
C19_Witness ==
    /\ LastMapperCall("load")
    /\ ~last.raised
    /\ mappings # last.before.mappings
    /\ DOMAIN mappings["products"] # {}

\* C20: in the pass over a kind every source record is matched against the
\* test records as they were listed before the loop: the match of a source
\* record is never a record created earlier in the pass, and when no test
\* record of the kind existed every source record that can be created
\* (products: all of them) produces its own create.
C20_MatchesAgainstPreLoopListing ==
    /\ pc = "loop" => test_entities = start.remote[TEST][entities_to_copy[ei]]
    /\ last.valid =>
          \/ last.match = NoEntity
          \/ last.match \in Range(start.remote[TEST][last.kind])
    /\ start.remote[TEST]["products"] = <<>> =>
          /\ creates["products"] = processed["products"]
          /\ (~dry_run /\ failures = 0) =>
                Len(remote[TEST]["products"]) = processed["products"]

\* Two source products of the same name and no test product: two creates,
\* two test products of that name.
C20_Witness ==
    /\ ~dry_run
    /\ start.remote[TEST]["products"] = <<>>
    /\ Len(remote[PRODUCTION]["products"]) = 2
    /\ remote[PRODUCTION]["products"][1].name
          = remote[PRODUCTION]["products"][2].name
    /\ creates["products"] = 2
    /\ Len(remote[TEST]["products"]) = 2
    /\ \A i \in 1..2 : remote[TEST]["products"][i].name
                          = remote[PRODUCTION]["products"][1].name

\* The positions of the destination listing that find_existing was given
\* whose record carries the prod_id tag `id`.
TaggedWith(id) ==
    {i \in 1..Len(test_entities) : MetaProdId(test_entities[i].meta) = id}

\* The positions whose (display_name, percentage, jurisdiction) equals the
\* source's, percentages within 0.01.
SameTriple(s) ==
    {i \in 1..Len(test_entities) :
        /\ test_entities[i].name = s.name
        /\ Abs(test_entities[i].pct - s.pct) < PctTolerance
        /\ test_entities[i].jur = s.jur}

Least(S) == CHOOSE i \in S : \A j \in S : i <= j

Matched(kind) == pc = "matched" /\ last.valid /\ last.kind = kind

\* C21: for a tax rate, when some destination record carries metadata
\* prod_id equal to the source id, find_existing returns the first such
\* record, whatever records match the triple before it.
C21_ProdIdRuleBeforeTriple ==
    (Matched("tax_rates") /\ TaggedWith(last.src.id) # {}) =>
        last.match = test_entities[Least(TaggedWith(last.src.id))]

\* C21 witness: the tagged record was returned although an earlier record
\* of the listing matches the triple.
C21_Witness ==
    /\ Matched("tax_rates")
    /\ TaggedWith(last.src.id) # {}
    /\ \E i \in SameTriple(last.src) : i < Least(TaggedWith(last.src.id))
    /\ last.match = test_entities[Least(TaggedWith(last.src.id))]

\* C22: for a tax rate, find_existing never returns a destination record
\* whose metadata prod_id is set to another source id, even when the
\* record's (display_name, percentage, jurisdiction) equals the source's.
C22_TaxRateTaggedElsewhereNotMatched ==
    (Matched("tax_rates") /\ last.match # NoEntity) =>
        \/ ~Truthy(MetaProdId(last.match.meta))
        \/ MetaProdId(last.match.meta) = last.src.id

\* The positions of the destination listing the name rule may return for
\* the source s: same name, and no prod_id tag or the tag of s.
NameEligible(s) ==
    {i \in 1..Len(test_entities) :
        /\ Truthy(s.name)
        /\ test_entities[i].name = s.name
        /\ MetaProdId(test_entities[i].meta) \in {NoneV, s.id}}

\* The positions with the name of s and the tag of another source record.
NameTaggedElsewhere(s) ==
    {i \in 1..Len(test_entities) :
        /\ test_entities[i].name = s.name
        /\ MetaProdId(test_entities[i].meta) \notin {NoneV, s.id}}

\* The matching of s falls through to the name rule: no record carries the
\* tag of s and, for a coupon, none has the id test_<id of s>.
NameRuleReached(kind, s) ==
    /\ TaggedWith(s.id) = {}
    /\ kind = "coupons" =>
          \A i \in 1..Len(test_entities) :
              test_entities[i].id # "test_" \o s.id

\* C23: for products and coupons, the name rule skips a same-named
\* destination record tagged with another prod_id and returns the first
\* same-named record that is untagged or tagged with the source id, or no
\* match when there is none.
C23_NameRuleSkipsTaggedElsewhere ==
    \A kind \in {"products", "coupons"} :
        (Matched(kind) /\ NameRuleReached(kind, last.src)) =>
            /\ last.match \notin
                  {test_entities[i] : i \in NameTaggedElsewhere(last.src)}
            /\ last.match =
                  IF NameEligible(last.src) = {} THEN NoEntity
                  ELSE test_entities[Least(NameEligible(last.src))]

\* C23 witness: a same-named record tagged with another prod_id precedes
\* the same-named untagged record that find_existing returned.
C23_Witness ==
    \E kind \in {"products", "coupons"} :
        /\ Matched(kind) /\ NameRuleReached(kind, last.src)
        /\ NameEligible(last.src) # {}
        /\ \E i \in NameTaggedElsewhere(last.src) :
              i < Least(NameEligible(last.src))
        /\ last.match = test_entities[Least(NameEligible(last.src))]
        /\ MetaProdId(last.match.meta) = NoneV

\* The positions of the destination listing with the lookup_key of s.
SameLookupKey(s) ==
    {i \in 1..Len(test_entities) :
        /\ s.lookup_key # NoneV
        /\ test_entities[i].lookup_key = s.lookup_key}

IsRecurring(e) == e.recurring # <<>>

\* The positions the structural rule accepts for s: none when the product
\* of s has no products mapping.
SameStructure(s) ==
    {i \in 1..Len(test_entities) :
        /\ s.product \in DOMAIN mappings["products"]
        /\ test_entities[i].product = mappings["products"][s.product]
        /\ test_entities[i].currency = s.currency
        /\ s.unit_amount # NoAmount =>
              test_entities[i].unit_amount = s.unit_amount
        /\ IsRecurring(test_entities[i]) = IsRecurring(s)
        /\ (IsRecurring(test_entities[i]) /\ IsRecurring(s)) =>
              test_entities[i].recurring = s.recurring}

\* C24: for a price, find_existing returns the first destination price
\* tagged with the source id; failing that, the first with the source's
\* lookup_key if it has one; failing that, the first price of the mapped
\* test product with the same currency, the same unit_amount when the
\* source has one, the same recurring-ness and, both recurring, the same
\* interval and interval_count; else no match, and none under the third
\* rule when the source's product is not mapped.
C24_PriceMatchingOrder ==
    Matched("prices") =>
        last.match =
            IF TaggedWith(last.src.id) # {}
            THEN test_entities[Least(TaggedWith(last.src.id))]
            ELSE IF SameLookupKey(last.src) # {}
            THEN test_entities[Least(SameLookupKey(last.src))]
            ELSE IF SameStructure(last.src) # {}
            THEN test_entities[Least(SameStructure(last.src))]
            ELSE NoEntity

\* C24 witness: the third rule returned the second of two recurring prices
\* of the mapped product, the first having another interval_count.
C24_Witness ==
    /\ Matched("prices")
    /\ TaggedWith(last.src.id) = {}
    /\ SameLookupKey(last.src) = {}
    /\ IsRecurring(last.src)
    /\ SameStructure(last.src) = {2}
    /\ IsRecurring(test_entities[1])
    /\ test_entities[1].product = test_entities[2].product
    /\ test_entities[1].currency = test_entities[2].currency
    /\ test_entities[1].unit_amount = test_entities[2].unit_amount
    /\ last.match = test_entities[2]

\* The parameters a builder returned for a source record of `kind`.
Built(op, kind) ==
    /\ pc = "built" /\ last.valid /\ last.kind = kind
    /\ last.calls[1].op = op
    /\ ~last.raised

AmountKeys == {"unit_amount_decimal", "unit_amount"}

\* The amount part of the claim C25 that holds of every price: never both
\* keys; unit_amount_decimal, with the source's value, exactly when the
\* source has it; unit_amount, with the source's value, exactly when the
\* source has a unit_amount and no unit_amount_decimal.
C25_AmountKeysFollowSource ==
    LET s == last.src
        p == last.calls[1].params
    IN /\ Cardinality(p.keys \cap AmountKeys) <= 1
       /\ "unit_amount_decimal" \in p.keys <=> s.unit_amount_decimal # NoneV
       /\ "unit_amount_decimal" \in p.keys =>
             p.vals.unit_amount_decimal = s.unit_amount_decimal
       /\ "unit_amount" \in p.keys <=>
             (s.unit_amount_decimal = NoneV /\ s.unit_amount # NoAmount)
       /\ "unit_amount" \in p.keys => p.vals.unit_amount = s.unit_amount

\* C25 as stated: the create params of every price contain exactly one of
\* unit_amount_decimal and unit_amount, unit_amount_decimal when the source
\* has it and otherwise unit_amount.
C25_ExactlyOneAmountKey ==
    Built("get_create_params", "prices") =>
        /\ Cardinality(last.calls[1].params.keys \cap AmountKeys) = 1
        /\ C25_AmountKeysFollowSource

\* C25, amended: the create params of a price never contain both keys;
\* they contain unit_amount_decimal when the source has it, else
\* unit_amount when the source has one, and neither key when the source
\* has neither.
C25_AtMostOneAmountKey ==
    Built("get_create_params", "prices") =>
        /\ C25_AmountKeysFollowSource
        /\ (last.src.unit_amount_decimal = NoneV
              /\ last.src.unit_amount = NoAmount) =>
               last.calls[1].params.keys \cap AmountKeys = {}

\* C25 witness: the source has both amounts and the params carry only
\* unit_amount_decimal.
C25_Witness ==
    /\ Built("get_create_params", "prices")
    /\ last.src.unit_amount_decimal = "1050.5"
    /\ last.src.unit_amount # NoAmount
    /\ last.calls[1].params.keys \cap AmountKeys = {"unit_amount_decimal"}
    /\ last.calls[1].params.vals.unit_amount_decimal = "1050.5"

\* C26: for tax rates, products and coupons, the update params built from
\* a source record s always include a metadata map with prod_id = s.id.
C26_UpdateParamsTagged ==
    \A kind \in {"tax_rates", "products", "coupons"} :
        Built("get_update_params", kind) =>
            /\ "metadata" \in last.calls[1].params.keys
            /\ MetaProdId(last.calls[1].params.vals.meta) = last.src.id

\* The last per-record step issued a create or an update that returned.
WriteReturned ==
    \E c \in LastCalls : c.op \in {"create", "update"} /\ ~c.raised

\* C27: a source record whose processing fails leaves the mappings as they
\* were; the mappings of its kind gain or change an entry, for the id of
\* the record only, when its create or update has returned and the record
\* is counted as created or updated; so every mapping entry of a kind
\* belongs to a record counted as created or updated.
C27_FailedRecordLeavesMappings ==
    /\ last.valid =>
          LET k == last.kind
              id == last.src.id
          IN /\ last.raised => mappings = last.before.mappings
             /\ \A j \in Kinds \ {k} : mappings[j] = last.before.mappings[j]
             /\ \A p \in DOMAIN last.before.mappings[k] \ {id} :
                   /\ p \in DOMAIN mappings[k]
                   /\ mappings[k][p] = last.before.mappings[k][p]
             /\ DOMAIN mappings[k] \subseteq
                   DOMAIN last.before.mappings[k] \cup {id}
             /\ mappings[k] # last.before.mappings[k] =>
                   /\ ~last.raised
                   /\ WriteReturned
                   /\ Delta(k, "created") + Delta(k, "updated") = 1
    /\ \A k \in Kinds :
          Cardinality(DOMAIN mappings[k])
              = stats[k]["created"] + stats[k]["updated"]

\* C27 witness: at the end of a run, the last record failed in the remote
\* write and has no mapping entry, while an earlier record of the run has
\* one.
C27_Witness ==
    /\ pc = "exit"
    /\ last.valid /\ last.raised
    /\ \E c \in LastCalls : c.contacted /\ c.raised
    /\ last.src.id \notin DOMAIN mappings[last.kind]
    /\ mappings = last.before.mappings
    /\ \E k \in Kinds : mappings[k] # <<>>
    /\ stats[last.kind]["errors"] = 1

\* Some listing of the run failed and no record of the run was counted as
\* an error.
OnlyListingFailed == failures > 0 /\ ErrorsTotal = 0

\* C28: a failing listing changes no counter of any kind, and a run whose
\* only failure is a listing ends with summary errors = 0, has written the
\* mapping snapshot when dry-run is off, and returns 0.
C28_ListFailureCountsNoError ==
    /\ [][ListingFails => UNCHANGED stats]_vars
    /\ []((RunCompleted /\ OnlyListingFailed) =>
            /\ get_summary(stats).errors = 0
            /\ exit_code = 0
            /\ ~dry_run =>
                  /\ DefaultFilename(clock) \in DOMAIN files
                  /\ DefaultFilename(clock) \notin DOMAIN start.files
                  /\ files[DefaultFilename(clock)]
                        = JsonDump(Snapshot, clock))

\* C28 witness: a run with dry-run off in which the listing of a kind
\* failed has ended with no error counted, a snapshot written and exit
\* code 0, after copying a record of another kind.
C28_Witness ==
    /\ RunCompleted /\ OnlyListingFailed
    /\ ~dry_run
    /\ exit_code = 0
    /\ DefaultFilename(clock) \in DOMAIN files
    /\ \E k \in Kinds : processed[k] > 0
    /\ \E k \in Range(entities_to_copy) :
          processed[k] = 0 /\ remote[PRODUCTION][k] # <<>>

\* C29: list_all never requests the same page twice: the cursor moves on
\* in every iteration in which the remote reports has_more, so the cursors
\* of the requests of one call are all different.
C29_NoPageRequestedTwice ==
    pc \in {"list_all", "listed", "raised"} =>
        \A i, j \in 1..Len(last.requests) :
            last.requests[i] = last.requests[j] => i = j

====
